---- MODULE Spec2Model ----
(***************************************************************************)
(* Tool reliability tracking and analysis of claude-wm-cli, and its        *)
(* session-end hook:                                                       *)
(*   .claude-wm/system/hooks/mcp-tool-tracker.py        (the tracker)      *)
(*   .claude-wm/runtime/hooks/tool-reliability-analyzer.py (the analyzer)  *)
(*   .claude-wm/runtime/hooks/session-end-summary.py    (the stop hook)    *)
(* Strings are TLA+ strings; floats that the code obtains by dividing two  *)
(* counters are exact rationals [n, d] in lowest terms.                    *)
(***************************************************************************)
EXTENDS Integers, Sequences, FiniteSets, TLC

VARIABLES
    statsFile,      \* STATS_FILE of the tracker = MCP_STATS_FILE of the analyzer
    trackerLog,     \* TRACKER_LOG: the sequence of lines appended so far
    analysisFile,   \* ANALYSIS_FILE written by generate_mcp_recommendations
    output,         \* what the tracker printed: [stream, text] in print order
    procs,          \* the tracker invocations in flight: position, argv, locals
    started,        \* tracker invocations started so far
    now,            \* the wall clock read by datetime.now()
    bashStatsFile,  \* BASH_STATS_FILE, read by the analyzer only
    combinedFile,   \* COMBINED_ANALYSIS_FILE
    adaptiveFile,   \* ADAPTIVE_RECOMMENDATIONS_FILE
    runs,           \* analyzer runs completed
    session         \* a session that is about to end, and its stop hook

vars == <<statsFile, trackerLog, analysisFile, output, procs, started, now,
          bashStatsFile, combinedFile, adaptiveFile, runs, session>>

trackerVars == <<statsFile, trackerLog, analysisFile, output, procs, started>>
analyzerVars == <<bashStatsFile, combinedFile, adaptiveFile, runs>>

(***************************************************************************)
(* Bounds of the model.                                                    *)
(***************************************************************************)
MaxCalls == 21          \* update_mcp_stats calls in one run of SpecUpdate
MaxTracked == 4         \* tracker invocations in one run of SpecTrack
MaxInvocations == 3     \* tracker invocations started in one run of Spec
MaxRuns == 2            \* analyzer runs in one run of SpecAnalyzer

(***************************************************************************)
(* Python values: str, float, dict.                                        *)
(***************************************************************************)
Max(a, b) == IF a >= b THEN a ELSE b

RECURSIVE GCD(_, _)
GCD(a, b) == IF b = 0 THEN a ELSE GCD(b, a % b)

Abs(a) == IF a < 0 THEN -a ELSE a

\* a / b for b > 0, in lowest terms
Div(a, b) == LET g == GCD(Abs(a), b) IN [n |-> a \div g, d |-> b \div g]

Zero == Div(0, 1)
FromInt(i) == Div(i, 1)
RatAdd(x, y) == Div(x.n * y.d + y.n * x.d, x.d * y.d)
RatMul(x, y) == Div(x.n * y.n, x.d * y.d)
RatLT(x, y) == x.n * y.d < y.n * x.d
RatLE(x, y) == x.n * y.d <= y.n * x.d
RatGT(x, y) == RatLT(y, x)
RatGE(x, y) == RatLE(y, x)

\* a dict keeps its keys in insertion order: a sequence of [k, v] without
\* repeated keys
Keys(d) == {d[i].k : i \in DOMAIN d}
HasKey(d, key) == \E i \in DOMAIN d : d[i].k = key
Get(d, key) == d[CHOOSE i \in DOMAIN d : d[i].k = key].v
GetOr(d, key, default) == IF HasKey(d, key) THEN Get(d, key) ELSE default
Put(d, key, val) ==
    IF HasKey(d, key)
    THEN [i \in DOMAIN d |-> IF d[i].k = key THEN [k |-> key, v |-> val] ELSE d[i]]
    ELSE Append(d, [k |-> key, v |-> val])
KeyList(d) == [i \in DOMAIN d |-> d[i].k]

RECURSIVE SumValues(_)
SumValues(d) == IF d = <<>> THEN 0 ELSE Head(d).v + SumValues(Tail(d))

\* str.lower() on the ASCII letters
LowerChar(c) ==
    CASE c = "A" -> "a" [] c = "B" -> "b" [] c = "C" -> "c" [] c = "D" -> "d"
      [] c = "E" -> "e" [] c = "F" -> "f" [] c = "G" -> "g" [] c = "H" -> "h"
      [] c = "I" -> "i" [] c = "J" -> "j" [] c = "K" -> "k" [] c = "L" -> "l"
      [] c = "M" -> "m" [] c = "N" -> "n" [] c = "O" -> "o" [] c = "P" -> "p"
      [] c = "Q" -> "q" [] c = "R" -> "r" [] c = "S" -> "s" [] c = "T" -> "t"
      [] c = "U" -> "u" [] c = "V" -> "v" [] c = "W" -> "w" [] c = "X" -> "x"
      [] c = "Y" -> "y" [] c = "Z" -> "z" [] OTHER -> c

RECURSIVE Lower(_)
Lower(s) ==
    IF Len(s) <= 1 THEN LowerChar(s)
    ELSE LET h == Len(s) \div 2 IN
         Lower(SubSeq(s, 1, h)) \o Lower(SubSeq(s, h + 1, Len(s)))

\* needle in s
Contains(s, needle) ==
    \E i \in 1..(Len(s) - Len(needle) + 1) : SubSeq(s, i, i + Len(needle) - 1) = needle

\* s.startswith(prefix)
StartsWith(s, prefix) ==
    Len(s) >= Len(prefix) /\ SubSeq(s, 1, Len(prefix)) = prefix

\* s[:k]
Prefix(s, k) == IF Len(s) <= k THEN s ELSE SubSeq(s, 1, k)

Whitespace == {" ", "\t", "\n", "\r"}

RECURSIVE LStrip(_)
LStrip(s) ==
    IF Len(s) > 0 /\ SubSeq(s, 1, 1) \in Whitespace
    THEN LStrip(SubSeq(s, 2, Len(s))) ELSE s

RECURSIVE RStrip(_)
RStrip(s) ==
    IF Len(s) > 0 /\ SubSeq(s, Len(s), Len(s)) \in Whitespace
    THEN RStrip(SubSeq(s, 1, Len(s) - 1)) ELSE s

\* s.strip()
Strip(s) == RStrip(LStrip(s))

(***************************************************************************)
(* The tracker: update_mcp_stats and what it calls.                        *)
(***************************************************************************)
Taxonomy ==
    <<"timeout", "permission", "network", "rate_limit", "invalid_input",
      "not_found", "other">>

\* patterns[label] = patterns.get(label, 0) + 1
\* patterns.get(label, 0) + 2
Bump_twice(patterns, label) == Put(patterns, label, GetOr(patterns, label, 0) + 2)

Bump(patterns, label) == Put(patterns, label, GetOr(patterns, label, 0) + 1)


\* error_label with the network test ahead of the timeout test
error_label_network_first(error_output) ==
    LET error_lower == Lower(error_output) IN
    IF Contains(error_lower, "network") \/ Contains(error_lower, "connection")
    THEN "network"
    ELSE IF Contains(error_lower, "timeout") THEN "timeout"
    ELSE IF Contains(error_lower, "permission") \/ Contains(error_lower, "unauthorized")
         THEN "permission"
    ELSE IF Contains(error_lower, "rate limit") THEN "rate_limit"
    ELSE IF Contains(error_lower, "invalid") \/ Contains(error_lower, "malformed")
         THEN "invalid_input"
    ELSE IF Contains(error_lower, "not found") THEN "not_found"
    ELSE "other"

\* the label categorize_error counts error_output under
error_label(error_output) ==
    LET error_lower == Lower(error_output) IN
    IF Contains(error_lower, "timeout") THEN "timeout"
    ELSE IF Contains(error_lower, "permission") \/ Contains(error_lower, "unauthorized")
         THEN "permission"
    ELSE IF Contains(error_lower, "network") \/ Contains(error_lower, "connection")
         THEN "network"
    ELSE IF Contains(error_lower, "rate limit") THEN "rate_limit"
    ELSE IF Contains(error_lower, "invalid") \/ Contains(error_lower, "malformed")
         THEN "invalid_input"
    ELSE IF Contains(error_lower, "not found") THEN "not_found"
    ELSE "other"


\* categorize_error with a chain of independent ifs: every matching label counts
categorize_error_every(tool_stats, error_output) ==
    LET error_lower == Lower(error_output)
        p1 == IF Contains(error_lower, "timeout")
              THEN Bump(tool_stats.error_patterns, "timeout")
              ELSE tool_stats.error_patterns
        p2 == IF Contains(error_lower, "permission") \/ Contains(error_lower, "unauthorized")
              THEN Bump(p1, "permission") ELSE p1
        p3 == IF Contains(error_lower, "network") \/ Contains(error_lower, "connection")
              THEN Bump(p2, "network") ELSE p2
        p4 == IF Contains(error_lower, "rate limit") THEN Bump(p3, "rate_limit") ELSE p3
        p5 == IF Contains(error_lower, "invalid") \/ Contains(error_lower, "malformed")
              THEN Bump(p4, "invalid_input") ELSE p4
        p6 == IF Contains(error_lower, "not found") THEN Bump(p5, "not_found") ELSE p5
    IN [tool_stats EXCEPT !.error_patterns =
            IF p6 = tool_stats.error_patterns THEN Bump(p6, "other") ELSE p6]

categorize_error(tool_stats, error_output) ==
    [tool_stats EXCEPT !.error_patterns = Bump(@, error_label(error_output))]


\* calculate_performance_factor with the band limits included in the faster band
calculate_performance_factor_le(avg_time) ==
    IF RatLE(avg_time, FromInt(500)) THEN 20
    ELSE IF RatLE(avg_time, FromInt(1000)) THEN 15
    ELSE IF RatLE(avg_time, FromInt(2000)) THEN 10
    ELSE IF RatLE(avg_time, FromInt(5000)) THEN 5
    ELSE 0

calculate_performance_factor(avg_time) ==
    IF RatLT(avg_time, FromInt(500)) THEN 20
    ELSE IF RatLT(avg_time, FromInt(1000)) THEN 15
    ELSE IF RatLT(avg_time, FromInt(2000)) THEN 10
    ELSE IF RatLT(avg_time, FromInt(5000)) THEN 5
    ELSE 0


\* calculate_stability_factor without its caps
calculate_stability_factor_raw(total_calls) == total_calls

\* calculate_stability_factor with the limits included in the higher band
calculate_stability_factor_ge(total_calls) ==
    IF total_calls >= 20 THEN 10
    ELSE IF total_calls >= 10 THEN 7
    ELSE IF total_calls >= 5 THEN 5
    ELSE total_calls

calculate_stability_factor(total_calls) ==
    IF total_calls > 20 THEN 10
    ELSE IF total_calls > 10 THEN 7
    ELSE IF total_calls > 5 THEN 5
    ELSE total_calls

\* the record of a tool seen for the first time; last_updated '' is time 0
\* the initial record with the first call already counted
NewToolStats_counted ==
    [total_calls |-> 1, successful_calls |-> 0, failed_calls |-> 0,
     success_rate |-> Zero, average_response_time |-> Zero,
     total_response_time |-> 0, common_errors |-> <<>>, last_updated |-> 0,
     reliability_score |-> Zero, trend |-> "stable", error_patterns |-> <<>>,
     performance_category |-> "normal"]

NewToolStats ==
    [total_calls |-> 0, successful_calls |-> 0, failed_calls |-> 0,
     success_rate |-> Zero, average_response_time |-> Zero,
     total_response_time |-> 0, common_errors |-> <<>>, last_updated |-> 0,
     reliability_score |-> Zero, trend |-> "stable", error_patterns |-> <<>>,
     performance_category |-> "normal"]

\* a load that always starts from the empty mapping
load_stats_file_fresh(file) == <<>>

\* the load at the head of update_mcp_stats
load_stats_file(file) == IF file.state = "valid" THEN file.data ELSE <<>>

\* the value json.load returns is a mapping: the file holds JSON that is one, or
\* the load fell back to {}; "not_mapping" is a file of valid JSON such as []
is_mapping(file) == file.state # "not_mapping"

\* stats[tool_name] after "if tool_name not in stats"
lookup_or_create(stats, tool_name) ==
    IF HasKey(stats, tool_name) THEN stats ELSE Put(stats, tool_name, NewToolStats)

count_call(tool_stats, response_time) ==
    [tool_stats EXCEPT !.total_calls = @ + 1,
                       !.total_response_time = @ + response_time]


\* record_outcome with the failed_calls increment inside "if error_output:"
record_outcome_nested(tool_stats, success, error_output) ==
    IF success THEN [tool_stats EXCEPT !.successful_calls = @ + 1]
    ELSE IF error_output # ""
         THEN LET error_key == Strip(Prefix(error_output, 50)) IN
              categorize_error(
                  [tool_stats EXCEPT !.failed_calls = @ + 1,
                                     !.common_errors =
                                         Put(@, error_key, GetOr(@, error_key, 0) + 1)],
                  error_output)
         ELSE tool_stats

record_outcome(tool_stats, success, error_output) ==
    IF success THEN [tool_stats EXCEPT !.successful_calls = @ + 1]
    ELSE LET failed == [tool_stats EXCEPT !.failed_calls = @ + 1] IN
         IF error_output # ""
         THEN LET error_key == Strip(Prefix(error_output, 50)) IN
              categorize_error(
                  [failed EXCEPT !.common_errors =
                       Put(@, error_key, GetOr(@, error_key, 0) + 1)],
                  error_output)
         ELSE failed


\* calculate_metrics with floor division (//) for the two ratios
calculate_metrics_floor(tool_stats) ==
    [tool_stats EXCEPT
        !.success_rate =
            FromInt(tool_stats.successful_calls \div tool_stats.total_calls),
        !.average_response_time =
            FromInt(tool_stats.total_response_time \div tool_stats.total_calls)]

calculate_metrics(tool_stats) ==
    [tool_stats EXCEPT
        !.success_rate = Div(tool_stats.successful_calls, tool_stats.total_calls),
        !.average_response_time =
            Div(tool_stats.total_response_time, tool_stats.total_calls)]

calculate_reliability_score(tool_stats) ==
    LET success_factor == RatMul(tool_stats.success_rate, FromInt(70))
        perf_factor == calculate_performance_factor(tool_stats.average_response_time)
        stability_factor == calculate_stability_factor(tool_stats.total_calls)
    IN RatAdd(success_factor, FromInt(perf_factor + stability_factor))

performance_category(avg_time) ==
    IF RatLT(avg_time, FromInt(500)) THEN "fast"
    ELSE IF RatLT(avg_time, FromInt(2000)) THEN "normal"
    ELSE IF RatLT(avg_time, FromInt(5000)) THEN "slow"
    ELSE "very_slow"

\* trend_analysis with the limits included in the outer bands
trend_analysis_inclusive(tool_stats) ==
    IF tool_stats.total_calls >= 10
    THEN LET recent_success_rate ==
                 Div(tool_stats.successful_calls, tool_stats.total_calls) IN
         IF RatGE(recent_success_rate, Div(9, 10)) THEN "improving"
         ELSE IF RatLE(recent_success_rate, Div(7, 10)) THEN "declining"
         ELSE "stable"
    ELSE tool_stats.trend

trend_analysis(tool_stats) ==
    IF tool_stats.total_calls >= 10
    THEN LET recent_success_rate ==
                 Div(tool_stats.successful_calls, tool_stats.total_calls) IN
         IF RatGT(recent_success_rate, Div(9, 10)) THEN "improving"
         ELSE IF RatLT(recent_success_rate, Div(7, 10)) THEN "declining"
         ELSE "stable"
    ELSE tool_stats.trend

\* tool_stats at the end of update_mcp_stats, before the save
updated_tool_stats(tool_stats, success, response_time, error_output, time) ==
    LET counted == record_outcome(count_call(tool_stats, response_time),
                                  success, error_output)
        measured == calculate_metrics(counted)
        scored == [measured EXCEPT
                      !.reliability_score = calculate_reliability_score(measured),
                      !.last_updated = time]
        categorized == [scored EXCEPT
                      !.performance_category =
                          performance_category(scored.average_response_time)]
    IN [categorized EXCEPT !.trend = trend_analysis(categorized)]

\* the in-memory stats of update_mcp_stats when it reaches the save
updated_stats(loaded, tool_name, success, response_time, error_output, time) ==
    LET stats == lookup_or_create(loaded, tool_name) IN
    Put(stats, tool_name,
        updated_tool_stats(Get(stats, tool_name), success, response_time,
                           error_output, time))


\* dump_stats by a writer that checks the version on disk and, for a tool whose
\* record on disk is not older than its own, re-applies its call on top of it
dump_stats_reapplied(file, stats) ==
    [state |-> "valid",
     data |-> [i \in DOMAIN stats |->
                  IF /\ file.state = "valid"
                     /\ HasKey(file.data, stats[i].k)
                     /\ Get(file.data, stats[i].k).total_calls >= stats[i].v.total_calls
                  THEN [stats[i] EXCEPT !.v.total_calls =
                            Get(file.data, stats[i].k).total_calls + 1]
                  ELSE stats[i]]]

\* json.dump(stats, f) over the opened file: the file holds the writer's copy
dump_stats(file, stats) == [state |-> "valid", data |-> stats]

(***************************************************************************)
(* The tracker: the log, the periodic recommendations, the alert.          *)
(***************************************************************************)
\* str(response_time) of the float parsed from a digit string
FloatStr(response_time) == ToString(response_time) \o ".0"

\* the line log_mcp_execution writes
log_entry(time, tool_name, success, response_time, error_output, session_id) ==
    LET status == IF success THEN "SUCCESS" ELSE "FAILURE"
        error_snippet == IF error_output # "" THEN Prefix(error_output, 100) ELSE ""
    IN "[" \o ToString(time) \o "] [" \o session_id \o "] " \o tool_name \o " "
       \o status \o " " \o FloatStr(response_time) \o "ms " \o error_snippet \o "\n"

\* log_mcp_execution without the write
log_mcp_execution_skipped(log, time, tool_name, success, response_time, error_output, session_id) ==
    log

\* open(TRACKER_LOG, 'a').write(log_entry)
log_mcp_execution(log, time, tool_name, success, response_time, error_output, session_id) ==
    Append(log, log_entry(time, tool_name, success, response_time, error_output,
                          session_id))

\* the lines a text-mode read yields from s (universal newlines: a line ends at
\* "\n", at "\r\n" and at a lone "\r", and is handed over ending in "\n")
SplitLines(s) ==
    LET At(i) == SubSeq(s, i, i)
        ends == {i \in 1..Len(s) :
                    \/ At(i) = "\n"
                    \/ At(i) = "\r" /\ ~(i < Len(s) /\ At(i + 1) = "\n")}
        n == Cardinality(ends)
        End(k) == CHOOSE e \in ends : Cardinality({x \in ends : x <= e}) = k
        First(k) == IF k = 1 THEN 1 ELSE End(k - 1) + 1
        ContentEnd(e) ==
            IF At(e) = "\n" /\ e > 1 /\ At(e - 1) = "\r" THEN e - 2 ELSE e - 1
        complete == [k \in 1..n |-> SubSeq(s, First(k), ContentEnd(End(k))) \o "\n"]
        last == IF n = 0 THEN 0 ELSE End(n)
    IN IF last < Len(s) THEN Append(complete, SubSeq(s, last + 1, Len(s)))
       ELSE complete

\* the lines of the log file; every write ends with a line break, so the lines of
\* the file are the lines of its writes
RECURSIVE LogLines(_)
LogLines(log) ==
    IF log = <<>> THEN <<>> ELSE SplitLines(Head(log)) \o LogLines(Tail(log))

\* seq[-k:]
LastK(seq, k) == IF Len(seq) <= k THEN seq ELSE SubSeq(seq, Len(seq) - k + 1, Len(seq))
\* seq[:k]
FirstK(seq, k) == IF Len(seq) <= k THEN seq ELSE SubSeq(seq, 1, k)

\* f"{rate:.1%}": the rate in percent with one decimal, rounded half to even
FormatPercent(rate) ==
    LET num == rate.n * 1000
        q == num \div rate.d
        r == num % rate.d
        up == (2 * r > rate.d) \/ (2 * r = rate.d /\ q % 2 = 1)
        m == IF up THEN q + 1 ELSE q
    IN ToString(m \div 10) \o "." \o ToString(m % 10) \o "%"

\* the first suggestion whose prefix the tool starts with
generate_tool_suggestion(tool) ==
    IF StartsWith(tool, "mcp__github__")
    THEN "Check GitHub token permissions and rate limits"
    ELSE IF StartsWith(tool, "mcp__playwright__")
    THEN "Ensure browser dependencies are installed"
    ELSE IF StartsWith(tool, "mcp_mem0__")
    THEN "Check memory storage permissions and disk space"
    ELSE IF StartsWith(tool, "mcp__time__")
    THEN "Check timezone data and system time settings"
    ELSE "Review tool configuration and error patterns"

generate_performance_suggestion(tool) ==
    IF Contains(tool, "github")
    THEN "Consider using GraphQL API or reducing payload size"
    ELSE IF Contains(tool, "aws") THEN "Check AWS region settings and service limits"
    ELSE IF Contains(tool, "playwright")
    THEN "Consider headless mode or reduced wait times"
    ELSE IF Contains(tool, "memory")
    THEN "Consider batch operations or data optimization"
    ELSE "Review parameters and consider alternative approaches"

\* sorted(items, key=lambda x: x[1], reverse=True): stable, larger counts first
RECURSIVE InsertDesc(_, _)
InsertDesc(sorted, item) ==
    IF sorted = <<>> THEN <<item>>
    ELSE IF Head(sorted).v >= item.v
         THEN <<Head(sorted)>> \o InsertDesc(Tail(sorted), item)
         ELSE <<item>> \o sorted

RECURSIVE SortedDesc(_)
SortedDesc(items) ==
    IF items = <<>> THEN <<>>
    ELSE InsertDesc(SortedDesc(SubSeq(items, 1, Len(items) - 1)), items[Len(items)])

\* the recommendations gathered over stats.items(), entry by entry
RECURSIVE recommendations_for(_, _)
recommendations_for(stats, rec) ==
    IF stats = <<>> THEN rec
    ELSE LET tool == Head(stats).k
             data == Head(stats).v
             r1 == IF RatLT(data.success_rate, Div(8, 10)) /\ data.total_calls > 3
                   THEN [rec EXCEPT !.unreliable_tools = Append(@,
                            [tool |-> tool, success_rate |-> data.success_rate,
                             common_errors |-> FirstK(KeyList(data.common_errors), 3),
                             error_patterns |-> data.error_patterns,
                             suggestion |-> generate_tool_suggestion(tool)])]
                   ELSE rec
             r2 == IF RatGT(data.average_response_time, FromInt(3000))
                   THEN [r1 EXCEPT !.slow_tools = Append(@,
                            [tool |-> tool, avg_time |-> data.average_response_time,
                             performance_category |-> data.performance_category,
                             suggestion |-> generate_performance_suggestion(tool)])]
                   ELSE r1
             r3 == IF RatGT(data.success_rate, Div(95, 100)) /\ data.total_calls > 5
                   THEN [r2 EXCEPT !.best_practices = Put(@, tool,
                            [success_rate |-> data.success_rate,
                             avg_time |-> data.average_response_time,
                             notes |-> "Highly reliable tool with "
                                       \o FormatPercent(data.success_rate)
                                       \o " success rate"])]
                   ELSE r2
             r4 == IF data.failed_calls > 0
                   THEN [r3 EXCEPT !.error_insights = Put(@, tool,
                            [failure_rate |-> Div(data.failed_calls, data.total_calls),
                             most_common_errors |->
                                 FirstK(SortedDesc(data.common_errors), 3),
                             error_patterns |-> data.error_patterns])]
                   ELSE r3
         IN recommendations_for(Tail(stats), r4)

\* ANALYSIS_FILE after generate_mcp_recommendations
generate_mcp_recommendations(stats_file, analysis_file, time) ==
    IF stats_file.state # "valid" THEN analysis_file
    ELSE [state |-> "valid",
          data |-> recommendations_for(stats_file.data,
                       [unreliable_tools |-> <<>>, slow_tools |-> <<>>,
                        alternatives |-> <<>>, usage_patterns |-> <<>>,
                        best_practices |-> <<>>, error_insights |-> <<>>,
                        generated_at |-> time])]

\* the lines among the last 10 of the log that hold tool_name and 'FAILURE'
recent_failures(log, tool_name) ==
    LET recent_log_lines == LastK(LogLines(log), 10) IN
    Cardinality({i \in DOMAIN recent_log_lines :
                    /\ Contains(recent_log_lines[i], tool_name)
                    /\ Contains(recent_log_lines[i], "FAILURE")})

\* the suggestion of the first unreliable_tools entry for tool_name, if any
RECURSIVE suggestion_for(_, _)
suggestion_for(unreliable_tools, tool_name) ==
    IF unreliable_tools = <<>> THEN <<>>
    ELSE IF Head(unreliable_tools).tool = tool_name
         THEN <<[stream |-> "stderr",
                 text |-> "Suggestion: " \o Head(unreliable_tools).suggestion]>>
         ELSE suggestion_for(Tail(unreliable_tools), tool_name)

\* what the alert at the end of main prints
alert_output(log, analysis_file, tool_name, success) ==
    IF success \/ recent_failures(log, tool_name) < 3 THEN <<>>
    ELSE <<[stream |-> "stderr",
            text |-> "WARNING: " \o tool_name \o " has failed "
                     \o ToString(recent_failures(log, tool_name))
                     \o " times recently"]>>
         \o (IF analysis_file.state = "valid"
             THEN suggestion_for(analysis_file.data.unreliable_tools, tool_name)
             ELSE <<>>)

(***************************************************************************)
(* The analyzer.  A statistics record read from a file may lack any field: *)
(* the analyzer reads every field with .get(name, default).                *)
(***************************************************************************)
GetField(rec, name, default) == IF name \in DOMAIN rec THEN rec[name] ELSE default

\* load_stats: each file is an empty mapping unless it exists and parses
load_stats(bash_file, mcp_file) ==
    [bash_stats |-> IF bash_file.state = "valid" THEN bash_file.data ELSE <<>>,
     mcp_stats |-> IF mcp_file.state = "valid" THEN mcp_file.data ELSE <<>>]

categorize_bash_tool(tool) ==
    IF tool \in {"ls", "find", "cat", "grep", "rg", "fd", "bat", "exa"}
    THEN "file_operations"
    ELSE IF tool \in {"git"} THEN "git_operations"
    ELSE IF tool \in {"npm", "pip", "brew", "apt"} THEN "package_management"
    ELSE IF tool \in {"chmod", "mkdir", "rm", "mv", "cp", "pwd"} THEN "system_operations"
    ELSE IF tool \in {"ps", "kill", "top", "htop"} THEN "process_management"
    ELSE IF tool \in {"curl", "wget", "ping", "ssh"} THEN "network_operations"
    ELSE IF tool \in {"sed", "awk", "sort", "uniq", "wc"} THEN "text_processing"
    ELSE IF tool \in {"node", "python", "java", "make", "docker"} THEN "development"
    ELSE "other"

categorize_mcp_tool(tool) ==
    IF StartsWith(tool, "mcp__github__") THEN "source_control"
    ELSE IF StartsWith(tool, "mcp__aws__") THEN "cloud_services"
    ELSE IF StartsWith(tool, "mcp__playwright__") THEN "browser_automation"
    ELSE IF StartsWith(tool, "mcp_mem0__") THEN "data_storage"
    ELSE IF StartsWith(tool, "mcp__time__") THEN "utilities"
    ELSE IF StartsWith(tool, "mcp__consult7__") THEN "ai_services"
    ELSE IF StartsWith(tool, "mcp__sequential-thinking__") THEN "ai_services"
    ELSE "other"

\* all_tools after one of the two loops of analyze_tool_ecosystem
RECURSIVE merge_tools(_, _, _)
merge_tools(all_tools, stats, type) ==
    IF stats = <<>> THEN all_tools
    ELSE merge_tools(
             Put(all_tools, Head(stats).k,
                 [type |-> type, stats |-> Head(stats).v,
                  category |-> IF type = "bash" THEN categorize_bash_tool(Head(stats).k)
                               ELSE categorize_mcp_tool(Head(stats).k)]),
             Tail(stats), type)

combine_tools(bash_stats, mcp_stats) ==
    merge_tools(merge_tools(<<>>, bash_stats, "bash"), mcp_stats, "mcp")

success_rate_of(tool_data) == GetField(tool_data.stats, "success_rate", Zero)

usage_count_of(tool_data) ==
    GetField(tool_data.stats, "total_executions", 0)
    + GetField(tool_data.stats, "total_calls", 0)

avg_time_of(tool_data) ==
    IF tool_data.type = "mcp"
    THEN GetField(tool_data.stats, "average_response_time", Zero)
    ELSE GetField(tool_data.stats, "average_execution_time", Zero)

\* get_health_category with strict comparisons
get_health_category_strict(score) ==
    IF RatGT(score, FromInt(90)) THEN "excellent"
    ELSE IF RatGT(score, FromInt(80)) THEN "good"
    ELSE IF RatGT(score, FromInt(70)) THEN "fair"
    ELSE IF RatGT(score, FromInt(60)) THEN "poor"
    ELSE "critical"

get_health_category(score) ==
    IF RatGE(score, FromInt(90)) THEN "excellent"
    ELSE IF RatGE(score, FromInt(80)) THEN "good"
    ELSE IF RatGE(score, FromInt(70)) THEN "fair"
    ELSE IF RatGE(score, FromInt(60)) THEN "poor"
    ELSE "critical"

analyze_ecosystem_health(all_tools) ==
    LET total_tools == Len(all_tools)
        reliable_tools == Cardinality({i \in DOMAIN all_tools :
                              RatGT(success_rate_of(all_tools[i].v), Div(8, 10))})
        unreliable_tools == Cardinality({i \in DOMAIN all_tools :
                              RatLT(success_rate_of(all_tools[i].v), Div(5, 10))})
        health_score == IF total_tools > 0
                        THEN RatMul(Div(reliable_tools, total_tools), FromInt(100))
                        ELSE Zero
    IN [total_tools |-> total_tools, reliable_tools |-> reliable_tools,
        unreliable_tools |-> unreliable_tools, health_score |-> health_score,
        health_category |-> get_health_category(health_score)]

\* the tier whose list create_reliability_tiers appends a tool of this rate to
tier_of(success_rate) ==
    IF RatGE(success_rate, Div(95, 100)) THEN "tier_1_excellent"
    ELSE IF RatGE(success_rate, Div(85, 100)) THEN "tier_2_good"
    ELSE IF RatGE(success_rate, Div(70, 100)) THEN "tier_3_fair"
    ELSE IF RatGE(success_rate, Div(50, 100)) THEN "tier_4_poor"
    ELSE "tier_5_critical"


\* tiers_of with a chain of independent ifs: every tier whose limit the rate reaches
tiers_of_every(success_rate) ==
    {t \in {"tier_1_excellent"} : RatGE(success_rate, Div(95, 100))}
    \cup {t \in {"tier_2_good"} : RatGE(success_rate, Div(85, 100))}
    \cup {t \in {"tier_3_fair"} : RatGE(success_rate, Div(70, 100))}
    \cup {t \in {"tier_4_poor"} : RatGE(success_rate, Div(50, 100))}
    \cup {t \in {"tier_5_critical"} : RatLT(success_rate, Div(50, 100))}

\* the tiers a tool of this rate is appended to: the if/elif chain picks one
tiers_of(success_rate) == {tier_of(success_rate)}

RECURSIVE fill_tiers(_, _)
fill_tiers(all_tools, tiers) ==
    IF all_tools = <<>> THEN tiers
    ELSE LET tool_name == Head(all_tools).k
             tool_data == Head(all_tools).v
             success_rate == success_rate_of(tool_data)
             entry == [tool |-> tool_name, success_rate |-> success_rate,
                       type |-> tool_data.type]
         IN fill_tiers(Tail(all_tools),
                [t \in DOMAIN tiers |->
                    IF t \in tiers_of(success_rate) THEN Append(tiers[t], entry)
                    ELSE tiers[t]])

create_reliability_tiers(all_tools) ==
    fill_tiers(all_tools,
               [tier_1_excellent |-> <<>>, tier_2_good |-> <<>>, tier_3_fair |-> <<>>,
                tier_4_poor |-> <<>>, tier_5_critical |-> <<>>])

\* defaultdict(list): d[key].append(item)
AppendTo(d, key, item) == Put(d, key, Append(GetOr(d, key, <<>>), item))

RECURSIVE categorize_tools_from(_, _)
categorize_tools_from(all_tools, categories) ==
    IF all_tools = <<>> THEN categories
    ELSE categorize_tools_from(Tail(all_tools),
             AppendTo(categories, Head(all_tools).v.category,
                      [tool |-> Head(all_tools).k, type |-> Head(all_tools).v.type,
                       success_rate |-> success_rate_of(Head(all_tools).v),
                       avg_time |-> avg_time_of(Head(all_tools).v)]))

categorize_tools(all_tools) == categorize_tools_from(all_tools, <<>>)

\* sum of f over a sequence of integers
RECURSIVE SumSeq(_)
SumSeq(seq) == IF seq = <<>> THEN 0 ELSE Head(seq) + SumSeq(Tail(seq))

RECURSIVE category_usage_from(_, _)
category_usage_from(all_tools, usage) ==
    IF all_tools = <<>> THEN usage
    ELSE category_usage_from(Tail(all_tools),
             Put(usage, Head(all_tools).v.category,
                 GetOr(usage, Head(all_tools).v.category, 0)
                 + usage_count_of(Head(all_tools).v)))

analyze_usage_patterns(all_tools) ==
    LET keyed == [i \in DOMAIN all_tools |->
                     [k |-> all_tools[i], v |-> usage_count_of(all_tools[i].v)]]
        sorted_tools == SortedDesc(keyed)
        Entry(x) == [tool |-> x.k.k, usage_count |-> x.v, type |-> x.k.v.type]
        most == FirstK(sorted_tools, 10)
        least == LastK(sorted_tools, 10)
        bash_usage == SumSeq([i \in DOMAIN all_tools |->
                         IF all_tools[i].v.type = "bash"
                         THEN GetField(all_tools[i].v.stats, "total_executions", 0)
                         ELSE 0])
        mcp_usage == SumSeq([i \in DOMAIN all_tools |->
                         IF all_tools[i].v.type = "mcp"
                         THEN GetField(all_tools[i].v.stats, "total_calls", 0)
                         ELSE 0])
    IN [most_used_tools |-> [i \in DOMAIN most |-> Entry(most[i])],
        least_used_tools |-> [i \in DOMAIN least |-> Entry(least[i])],
        bash_vs_mcp_usage |->
            [bash_usage |-> bash_usage, mcp_usage |-> mcp_usage,
             mcp_adoption_rate |-> IF bash_usage + mcp_usage > 0
                                   THEN Div(mcp_usage, bash_usage + mcp_usage)
                                   ELSE Zero],
        category_usage |-> category_usage_from(all_tools, <<>>),
        time_patterns |-> <<>>]

\* list.sort(key=lambda x: x[1]): stable, smaller times first
RECURSIVE InsertAsc(_, _)
InsertAsc(sorted, item) ==
    IF sorted = <<>> THEN <<item>>
    ELSE IF RatLE(Head(sorted).avg_time, item.avg_time)
         THEN <<Head(sorted)>> \o InsertAsc(Tail(sorted), item)
         ELSE <<item>> \o sorted

RECURSIVE SortedAsc(_)
SortedAsc(items) ==
    IF items = <<>> THEN <<>>
    ELSE InsertAsc(SortedAsc(SubSeq(items, 1, Len(items) - 1)), items[Len(items)])

RECURSIVE category_times_from(_, _)
category_times_from(timed_tools, by_category) ==
    IF timed_tools = <<>> THEN by_category
    ELSE category_times_from(Tail(timed_tools),
             AppendTo(by_category, Head(timed_tools).category, Head(timed_tools).avg_time))

RECURSIVE RatSum(_)
RatSum(times) == IF times = <<>> THEN Zero ELSE RatAdd(Head(times), RatSum(Tail(times)))

RatMin(times) == times[CHOOSE i \in DOMAIN times : \A j \in DOMAIN times : RatLE(times[i], times[j])]
RatMax(times) == times[CHOOSE i \in DOMAIN times : \A j \in DOMAIN times : RatGE(times[i], times[j])]

analyze_performance(all_tools) ==
    LET with_time == SelectSeq(
            [i \in DOMAIN all_tools |->
                [tool |-> all_tools[i].k, avg_time |-> avg_time_of(all_tools[i].v),
                 type |-> all_tools[i].v.type, category |-> all_tools[i].v.category]],
            LAMBDA x : RatGT(x.avg_time, Zero))
        timed_tools == SortedAsc(with_time)
        by_category == category_times_from(timed_tools, <<>>)
    IN [fastest_tools |-> FirstK(timed_tools, 10),
        slowest_tools |-> LastK(timed_tools, 10),
        performance_by_category |->
            [i \in DOMAIN by_category |->
                [k |-> by_category[i].k,
                 v |-> [avg_time |-> RatMul(RatSum(by_category[i].v),
                                            Div(1, Len(by_category[i].v))),
                        min_time |-> RatMin(by_category[i].v),
                        max_time |-> RatMax(by_category[i].v),
                        tool_count |-> Len(by_category[i].v)]]],
        performance_recommendations |-> <<>>]

\* all_errors: one entry per tool and common_errors key, in iteration order
RECURSIVE collect_errors(_)
collect_errors(all_tools) ==
    IF all_tools = <<>> THEN <<>>
    ELSE LET common_errors == GetField(Head(all_tools).v.stats, "common_errors", <<>>)
         IN [i \in DOMAIN common_errors |->
                [tool |-> Head(all_tools).k, error |-> common_errors[i].k,
                 count |-> common_errors[i].v, type |-> Head(all_tools).v.type]]
            \o collect_errors(Tail(all_tools))

\* error_groups: the tools of each error text, texts in first-seen order
RECURSIVE group_errors(_, _)
group_errors(all_errors, groups) ==
    IF all_errors = <<>> THEN groups
    ELSE group_errors(Tail(all_errors),
                      AppendTo(groups, Head(all_errors).error, Head(all_errors).tool))

\* list(set(tools)): the members once each, in the order the set iterates them;
\* hash_order is the order this process's string hashes put the tool names in
ListOfSet(tools, hash_order) ==
    SelectSeq(hash_order, LAMBDA t : \E i \in DOMAIN tools : tools[i] = t)

SetSize(tools) == Cardinality({tools[i] : i \in DOMAIN tools})

\* 'high' if len(tools) > 5 else 'medium', with the limit included
systemic_severity_inclusive(tools) == IF Len(tools) >= 5 THEN "high" ELSE "medium"

\* the severity of an issue that affects these tools
systemic_severity(tools) == IF Len(tools) > 5 THEN "high" ELSE "medium"

analyze_error_correlations(all_tools, hash_order) ==
    LET all_errors == collect_errors(all_tools)
        error_groups == group_errors(all_errors, <<>>)
        error_counter == [i \in DOMAIN error_groups |->
                             [k |-> error_groups[i].k, v |-> Len(error_groups[i].v)]]
        shared == SelectSeq(error_groups, LAMBDA g : SetSize(g.v) > 1)
        tools_with_similar_errors ==
            [i \in DOMAIN shared |->
                [k |-> shared[i].k, v |-> ListOfSet(shared[i].v, hash_order)]]
        systemic == SelectSeq(tools_with_similar_errors, LAMBDA g : Len(g.v) >= 3)
    IN [common_error_patterns |-> FirstK(SortedDesc(error_counter), 10),
        tools_with_similar_errors |-> tools_with_similar_errors,
        error_trends |-> <<>>,
        systemic_issues |->
            [i \in DOMAIN systemic |->
                [error |-> systemic[i].k, affected_tools |-> systemic[i].v,
                 severity |-> systemic_severity(systemic[i].v)]]]

get_tool_fix_suggestion(tool_name, tool_data) ==
    IF tool_data.type = "bash"
    THEN "Check " \o tool_name \o " installation and permissions"
    ELSE IF StartsWith(tool_name, "mcp__github__")
    THEN "Verify GitHub token and API limits"
    ELSE "Review tool configuration and error logs"

get_optimization_suggestion(tool_name, category) ==
    CASE category = "file_operations" ->
             "Consider using modern alternatives like fd, rg, or bat"
      [] category = "source_control" -> "Use batch operations or reduce payload size"
      [] category = "cloud_services" -> "Check network connectivity and service regions"
      [] category = "browser_automation" -> "Use headless mode or reduce wait times"
      [] category = "ai_services" -> "Consider caching responses or reducing context size"
      [] OTHER -> "Review parameters and consider alternative approaches"

Substitutions ==
    <<[k |-> "find", v |-> "fd"], [k |-> "grep", v |-> "rg"],
      [k |-> "cat", v |-> "bat"], [k |-> "ls", v |-> "exa"]>>

\* the tier below the one the immediate actions are made for
tier_5_critical_poor(analysis) == analysis.reliability_tiers.tier_4_poor

\* analysis['reliability_tiers']['tier_5_critical']
tier_5_critical(analysis) == analysis.reliability_tiers.tier_5_critical

generate_adaptive_recommendations(all_tools, analysis) ==
    LET critical == tier_5_critical(analysis)
        replaced == SelectSeq(Substitutions, LAMBDA sub :
                        /\ HasKey(all_tools, sub.k)
                        /\ RatLT(GetField(Get(all_tools, sub.k).stats, "success_rate",
                                          FromInt(1)), Div(8, 10)))
        slow_tools == SelectSeq(analysis.performance_insights.slowest_tools,
                                LAMBDA tool : RatGT(tool.avg_time, FromInt(2000)))
        mcp_adoption == analysis.usage_patterns.bash_vs_mcp_usage.mcp_adoption_rate
        health_score == analysis.ecosystem_health.health_score
    IN [immediate_actions |->
            [i \in DOMAIN critical |->
                [action |-> "Investigate " \o critical[i].tool \o " failures",
                 priority |-> "high",
                 reason |-> "Success rate: " \o FormatPercent(critical[i].success_rate),
                 suggestion |-> get_tool_fix_suggestion(critical[i].tool,
                                    Get(all_tools, critical[i].tool))]],
        tool_substitutions |->
            [i \in DOMAIN replaced |->
                [k |-> replaced[i].k,
                 v |-> [alternative |-> replaced[i].v,
                        reason |-> "Current success rate: " \o FormatPercent(
                                       success_rate_of(Get(all_tools, replaced[i].k)))]]],
        optimization_opportunities |->
            [i \in DOMAIN slow_tools |->
                [tool |-> slow_tools[i].tool, current_time |-> slow_tools[i].avg_time,
                 suggestion |-> get_optimization_suggestion(slow_tools[i].tool,
                                                            slow_tools[i].category)]],
        habit_changes |->
            IF RatLT(mcp_adoption, Div(3, 10))
            THEN <<[habit |-> "Increase MCP tool usage",
                    reason |-> "Current MCP adoption: " \o FormatPercent(mcp_adoption),
                    suggestion |-> "Consider using MCP equivalents for git, file operations, and cloud services"]>>
            ELSE <<>>,
        system_improvements |->
            IF RatLT(health_score, FromInt(80))
            THEN <<[improvement |-> "Overall tool reliability",
                    current_score |-> health_score,
                    suggestion |-> "Focus on fixing tools in tier 4 and 5 reliability"]>>
            ELSE <<>>]

\* total_executions + total_calls of a tool, each 0 when missing
usage_of(tool_data) ==
    GetField(tool_data.stats, "total_executions", 0)
        + GetField(tool_data.stats, "total_calls", 0)

\* {name: Value(tool_data)} over the items of all_tools that Keep accepts
SelectTools(all_tools, Keep(_), Value(_)) ==
    LET kept == SelectSeq(all_tools, Keep) IN
    [i \in DOMAIN kept |-> [k |-> kept[i].k, v |-> Value(kept[i])]]

\* any(word in tool_name.lower() for word in words)
NamesAny(tool_name, words) ==
    LET lowered == Lower(tool_name) IN \E word \in words : Contains(lowered, word)

RECURSIVE mcp_categories_from(_, _)
mcp_categories_from(mcp_tools, categories) ==
    IF mcp_tools = <<>> THEN categories
    ELSE mcp_categories_from(Tail(mcp_tools),
             AppendTo(categories, Head(mcp_tools).v.category, Head(mcp_tools).k))

analyze_mcp_adoption(all_tools) ==
    LET mcp_tools == SelectSeq(all_tools, LAMBDA x : x.v.type = "mcp")
        bash_tools == SelectSeq(all_tools, LAMBDA x : x.v.type = "bash")
        total_mcp_usage ==
            SumSeq([i \in DOMAIN mcp_tools |->
                       GetField(mcp_tools[i].v.stats, "total_calls", 0)])
        total_bash_usage ==
            SumSeq([i \in DOMAIN bash_tools |->
                       GetField(bash_tools[i].v.stats, "total_executions", 0)])
        by_calls == SortedDesc([i \in DOMAIN mcp_tools |->
                        [k |-> mcp_tools[i],
                         v |-> GetField(mcp_tools[i].v.stats, "total_calls", 0)]])
    IN [mcp_tool_count |-> Len(mcp_tools),
        bash_tool_count |-> Len(bash_tools),
        mcp_categories |-> mcp_categories_from(mcp_tools, <<>>),
        adoption_rate |-> IF total_mcp_usage + total_bash_usage > 0
                          THEN Div(total_mcp_usage, total_mcp_usage + total_bash_usage)
                          ELSE Zero,
        top_mcp_tools |-> FirstK([i \in DOMAIN by_calls |-> by_calls[i].k], 5),
        mcp_success_rate |->
            IF mcp_tools # <<>>
            THEN RatMul(RatSum([i \in DOMAIN mcp_tools |-> success_rate_of(mcp_tools[i].v)]),
                        Div(1, Len(mcp_tools)))
            ELSE Zero]

analyze_peak_usage(all_tools) ==
    SelectTools(all_tools, LAMBDA x : usage_of(x.v) > 0,
                LAMBDA x : [usage_frequency |-> usage_of(x.v),
                            category |-> x.v.category, type |-> x.v.type])

analyze_usage_trends(all_tools) ==
    SelectTools(all_tools, LAMBDA x : TRUE,
                LAMBDA x : [trend |-> GetField(x.v.stats, "trend", "stable"),
                            reliability_score |->
                                GetField(x.v.stats, "reliability_score", Zero),
                            last_updated |-> GetField(x.v.stats, "last_updated", 0)])

analyze_development_cycles(all_tools) ==
    SelectTools(all_tools,
                LAMBDA x : x.v.category \in
                               {"development", "source_control", "file_operations"},
                LAMBDA x : [usage |-> usage_of(x.v), category |-> x.v.category])

analyze_maintenance_patterns(all_tools) ==
    SelectTools(all_tools,
                LAMBDA x : x.v.category \in {"system_operations", "process_management"},
                LAMBDA x : [usage |-> usage_of(x.v),
                            success_rate |-> success_rate_of(x.v)])

analyze_seasonal_patterns(all_tools) ==
    [development_cycles |-> analyze_development_cycles(all_tools),
     maintenance_windows |-> analyze_maintenance_patterns(all_tools)]

analyze_temporal_patterns(all_tools) ==
    [peak_usage_indicators |-> analyze_peak_usage(all_tools),
     trend_analysis |-> analyze_usage_trends(all_tools),
     seasonal_patterns |-> analyze_seasonal_patterns(all_tools)]

analyze_privileged_operations(all_tools) ==
    SelectTools(all_tools,
                LAMBDA x : NamesAny(x.k, {"chmod", "sudo", "su", "chown", "systemctl"}),
                LAMBDA x : [usage_count |-> GetField(x.v.stats, "total_executions", 0),
                            success_rate |-> success_rate_of(x.v),
                            risk_level |->
                                IF RatLT(GetField(x.v.stats, "success_rate", FromInt(1)),
                                         Div(9, 10))
                                THEN "high" ELSE "medium"])

analyze_network_operations(all_tools) ==
    SelectTools(all_tools,
                LAMBDA x : NamesAny(x.k, {"curl", "wget", "ssh", "scp", "rsync"}),
                LAMBDA x : [usage_count |-> GetField(x.v.stats, "total_executions", 0),
                            success_rate |-> success_rate_of(x.v),
                            category |-> x.v.category])

analyze_file_access_patterns(all_tools) ==
    SelectTools(all_tools,
                LAMBDA x : NamesAny(x.k, {"find", "grep", "cat", "ls", "rm", "mv", "cp"}),
                LAMBDA x : [usage_count |-> GetField(x.v.stats, "total_executions", 0),
                            success_rate |-> success_rate_of(x.v),
                            performance |->
                                GetField(x.v.stats, "average_execution_time", Zero)])

generate_security_recommendations(all_tools) ==
    LET risky == SelectSeq(all_tools,
                     LAMBDA x : /\ RatLT(GetField(x.v.stats, "success_rate", FromInt(1)),
                                         Div(8, 10))
                                /\ NamesAny(x.k, {"rm"}))
        network_usage ==
            SumSeq([i \in DOMAIN all_tools |->
                       IF NamesAny(all_tools[i].k, {"curl", "wget"})
                       THEN GetField(all_tools[i].v.stats, "total_executions", 0)
                       ELSE 0])
    IN [i \in DOMAIN risky |->
           [type |-> "high_risk_operation", tool |-> risky[i].k,
            issue |-> "Low success rate for destructive operation",
            recommendation |->
                "Review rm command usage and consider safer alternatives"]]
       \o (IF network_usage > 100
           THEN <<[type |-> "network_security", issue |-> "High network tool usage",
                   recommendation |->
                       "Review network operations for potential security implications"]>>
           ELSE <<>>)

analyze_security_patterns(all_tools) ==
    [privileged_operations |-> analyze_privileged_operations(all_tools),
     network_operations |-> analyze_network_operations(all_tools),
     file_access_patterns |-> analyze_file_access_patterns(all_tools),
     security_recommendations |-> generate_security_recommendations(all_tools)]

\* the analysis document; time is the clock read for generated_at, hash_order
\* the order in which this process iterates a set of tool names
analyze_tool_ecosystem(bash_stats, mcp_stats, time, hash_order) ==
    LET all_tools == combine_tools(bash_stats, mcp_stats)
        analysis == [ecosystem_health |-> analyze_ecosystem_health(all_tools),
                     tool_categories |-> categorize_tools(all_tools),
                     reliability_tiers |-> create_reliability_tiers(all_tools),
                     usage_patterns |-> analyze_usage_patterns(all_tools),
                     performance_insights |-> analyze_performance(all_tools),
                     error_correlations |->
                         analyze_error_correlations(all_tools, hash_order),
                     generated_at |-> time]
    IN [ecosystem_health |-> analysis.ecosystem_health,
        tool_categories |-> analysis.tool_categories,
        reliability_tiers |-> analysis.reliability_tiers,
        usage_patterns |-> analysis.usage_patterns,
        performance_insights |-> analysis.performance_insights,
        error_correlations |-> analysis.error_correlations,
        recommendations |-> generate_adaptive_recommendations(all_tools, analysis),
        mcp_adoption_metrics |-> analyze_mcp_adoption(all_tools),
        temporal_patterns |-> analyze_temporal_patterns(all_tools),
        security_insights |-> analyze_security_patterns(all_tools),
        generated_at |-> time]

(***************************************************************************)
(* The session-end hook.  A JSON value is [type, text, items]; a JSON      *)
(* object is a sequence of [k, v].  The pictographs and bullets of the     *)
(* reminder texts are left out.                                            *)
(***************************************************************************)
JTrue == [type |-> "bool", text |-> "true", items |-> <<>>]
JFalse == [type |-> "bool", text |-> "false", items |-> <<>>]
JNull == [type |-> "null", text |-> "", items |-> <<>>]
JStr(text) == [type |-> "str", text |-> text, items |-> <<>>]
JNum(text) == [type |-> "number", text |-> text, items |-> <<>>]
JList(items) == [type |-> "list", text |-> "", items |-> items]

\* bool(value)
Truthy(value) ==
    CASE value.type = "bool" -> value.text = "true"
      [] value.type = "str" -> value.text # ""
      [] value.type = "number" -> value.text # "0"
      [] value.type = "list" -> value.items # <<>>
      [] OTHER -> FALSE

\* whether "for reminder in value" runs, and what it runs over
Iterable(value) == value.type \in {"list", "str"}
ItemsOf(value) ==
    IF value.type = "list" THEN value.items
    ELSE [i \in 1..Len(value.text) |-> SubSeq(value.text, i, i)]

\* the configuration load_project_config returns: what the file holds when it
\* parses, whatever it holds, and the default otherwise
load_project_config(config_file) ==
    IF config_file.state = "valid" THEN [mapping |-> TRUE, fields |-> config_file.data]
    ELSE IF config_file.state = "not_mapping" THEN [mapping |-> FALSE, fields |-> <<>>]
    ELSE [mapping |-> TRUE,
          fields |-> <<[k |-> "show_git_reminders", v |-> JTrue],
                       [k |-> "custom_reminders", v |-> JList(<<>>)]>>]

GeneralReminders ==
    <<"\nGeneral Reminders:", "* Review and commit your changes",
      "* Run tests before committing", "* Update documentation as needed">>

\* generate_reminders: the list, or raised when config.get or the loop over
\* custom_reminders raises
generate_reminders(activities, config) ==
    IF ~config.mapping THEN [raised |-> TRUE, reminders |-> <<>>]
    ELSE LET git == IF /\ Truthy(GetOr(config.fields, "show_git_reminders", JTrue))
                       /\ activities.has_uncommitted_changes
                    THEN <<"\nYou have uncommitted changes - consider committing your work">>
                    ELSE <<>>
             custom_reminders == GetOr(config.fields, "custom_reminders", JList(<<>>))
         IN IF Truthy(custom_reminders)
            THEN IF ~Iterable(custom_reminders)
                 THEN [raised |-> TRUE, reminders |-> <<>>]
                 ELSE [raised |-> FALSE,
                       reminders |-> git \o <<"\nProject-Specific Reminders:">>
                                     \o [i \in DOMAIN ItemsOf(custom_reminders) |->
                                            "* " \o ItemsOf(custom_reminders)[i]]]
            ELSE [raised |-> FALSE, reminders |-> git \o GeneralReminders]

\* "\n".join(reminders)
RECURSIVE JoinLines(_)
JoinLines(lines) ==
    IF lines = <<>> THEN ""
    ELSE IF Len(lines) = 1 THEN lines[1]
    ELSE lines[1] \o "\n" \o JoinLines(Tail(lines))

\* the guard with the exit dropped
loop_guard_off(stop_hook_active) == FALSE

\* "if stop_hook_active:" in main
loop_guard(stop_hook_active) == Truthy(stop_hook_active)

NoResponse == [decision |-> "none", reason |-> ""]

\* main of the hook over its stdin: the response it prints on stdout, what it
\* prints on stderr and its exit status
session_end_main(input, config_file, has_uncommitted_changes) ==
    IF input.json = "invalid"
    THEN [response |-> NoResponse, stderr |-> <<"Error: Invalid JSON input">>,
          exit_code |-> 1]
    ELSE IF input.json # "object"
    THEN [response |-> NoResponse, stderr |-> <<>>, exit_code |-> 0]
    ELSE IF loop_guard(GetOr(input.fields, "stop_hook_active", JFalse))
    THEN [response |-> NoResponse, stderr |-> <<>>, exit_code |-> 0]
    ELSE LET generated == generate_reminders(
                 [has_uncommitted_changes |-> has_uncommitted_changes],
                 load_project_config(config_file))
         IN IF generated.raised \/ generated.reminders = <<>>
            THEN [response |-> NoResponse, stderr |-> <<>>, exit_code |-> 0]
            ELSE [response |->
                      [decision |-> "block",
                       reason |-> "Session Summary:\n\n" \o JoinLines(generated.reminders)
                                  \o "\n\nPlease review these items before ending the session."],
                  stderr |-> <<>>, exit_code |-> 0]

\* no session is about to end
NoSession ==
    [phase |-> "none", input |-> [json |-> "invalid", fields |-> <<>>],
     config_file |-> [state |-> "absent", data |-> <<>>],
     has_uncommitted_changes |-> FALSE, response |-> NoResponse, stderr |-> <<>>,
     exit_code |-> -1, invocations |-> 0, blocks |-> 0]

(***************************************************************************)
(* Initial state: nothing has run yet, no file exists.                     *)
(***************************************************************************)
AbsentFile == [state |-> "absent", data |-> <<>>]
\* a file that json.load refuses, and a file of valid JSON that is no mapping
UnparseableFile == [state |-> "unparseable", data |-> <<>>]
NotMappingFile == [state |-> "not_mapping", data |-> <<>>]

Procs == {1, 2}

IdleProc ==
    [pc |-> "idle", tool_name |-> "", success |-> FALSE, response_time |-> 0,
     error_output |-> "", session_id |-> "", stats |-> <<>>, exit_code |-> -1,
     argv |-> <<>>, fault |-> "none"]

Init ==
    /\ statsFile = AbsentFile
    /\ trackerLog = <<>>
    /\ analysisFile = AbsentFile
    /\ output = <<>>
    /\ procs = [p \in Procs |-> IdleProc]
    /\ started = 0
    /\ now = 0
    /\ bashStatsFile = AbsentFile
    /\ combinedFile = AbsentFile
    /\ adaptiveFile = AbsentFile
    /\ runs = 0
    /\ session = NoSession

(***************************************************************************)
(* SpecUpdate: update_mcp_stats called directly, one call after another.   *)
(***************************************************************************)
UpdTools == {"mcp__alpha"}
UpdLatencies == {300, 1000, 6000}
UpdErrors == {"Connection timeout"}

\* calls recorded in a stats mapping
RECURSIVE TotalCalls(_)
TotalCalls(stats) ==
    IF stats = <<>> THEN 0 ELSE Head(stats).v.total_calls + TotalCalls(Tail(stats))

\* what the interpreter prints when stats[tool_name] = {...} is refused
not_mapping_error == "TypeError: object does not support item assignment"

\* one whole call of update_mcp_stats: load, update, save; a loaded value that is
\* no mapping raises at the first use of stats[tool_name]
update_mcp_stats(tool_name, success, response_time, error_output) ==
    /\ IF is_mapping(statsFile)
       THEN /\ statsFile' = dump_stats(statsFile,
                               updated_stats(load_stats_file(statsFile), tool_name,
                                             success, response_time, error_output,
                                             now + 1))
            /\ output' = output
       ELSE /\ statsFile' = statsFile
            /\ output' = Append(output, [stream |-> "stderr", text |-> not_mapping_error])
    /\ now' = now + 1
    /\ UNCHANGED <<trackerLog, analysisFile, procs, started>>
    /\ UNCHANGED <<analyzerVars, session>>

NextUpdate ==
    \E tool_name \in UpdTools, success \in BOOLEAN,
       response_time \in UpdLatencies, error_output \in UpdErrors :
        /\ now < MaxCalls
        /\ update_mcp_stats(tool_name, success, response_time, error_output)

SpecUpdate == Init /\ [][NextUpdate]_vars

(***************************************************************************)
(* main() of the tracker, step by step.  A step takes and returns the      *)
(* world of one invocation: the files, the output, the clock and the       *)
(* invocation's own locals (proc).                                         *)
(***************************************************************************)
Digits == {"0", "1", "2", "3", "4", "5", "6", "7", "8", "9"}

DigitValue(c) ==
    CASE c = "0" -> 0 [] c = "1" -> 1 [] c = "2" -> 2 [] c = "3" -> 3 [] c = "4" -> 4
      [] c = "5" -> 5 [] c = "6" -> 6 [] c = "7" -> 7 [] c = "8" -> 8 [] c = "9" -> 9

\* whether float(s) returns; the arguments of the model are digit strings and
\* words without digits
IsFloat(s) == Len(s) > 0 /\ \A i \in 1..Len(s) : SubSeq(s, i, i) \in Digits

RECURSIVE ParseFloat(_)
ParseFloat(s) ==
    IF Len(s) = 0 THEN 0
    ELSE 10 * ParseFloat(SubSeq(s, 1, Len(s) - 1)) + DigitValue(SubSeq(s, Len(s), Len(s)))

\* sys.argv[4] if sys.argv[4] != 'None' else ''
error_output_of(arg) == IF arg # "None" THEN arg ELSE ""

\* sys.argv[2].lower() == 'true'
success_of(arg) == Lower(arg) = "true"

\* fault is the write the file system refuses during the invocation that starts,
\* if any: "log", "stats", "analysis" or "none"; main_start keeps it in proc
World(p) ==
    [statsFile |-> statsFile, trackerLog |-> trackerLog, analysisFile |-> analysisFile,
     output |-> output, now |-> now, proc |-> procs[p], fault |-> "none"]

Commit(p, w) ==
    /\ statsFile' = w.statsFile
    /\ trackerLog' = w.trackerLog
    /\ analysisFile' = w.analysisFile
    /\ output' = w.output
    /\ now' = w.now
    /\ procs' = [procs EXCEPT ![p] = w.proc]

Exited(proc, code) == [proc EXCEPT !.pc = "done", !.exit_code = code]

\* an exception nobody catches: the traceback on stderr, exit status 1
Uncaught(w, proc, text) ==
    [w EXCEPT !.output = Append(@, [stream |-> "stderr", text |-> text]),
              !.proc = Exited(proc, 1)]

\* what the interpreter prints when open() is refused
open_error == "PermissionError: [Errno 13] Permission denied"

\* tool_name.startswith('mcp__'), dropped
is_mcp_tool_any(tool_name) == TRUE

\* tool_name.startswith('mcp__')
is_mcp_tool(tool_name) == StartsWith(tool_name, "mcp__")

\* main up to and including log_mcp_execution; args is sys.argv[1:]
main_start(w, args) ==
    IF Len(args) < 5
    THEN [w EXCEPT !.output = Append(@, [stream |-> "stdout", text |->
              "Usage: mcp-tool-tracker.py <tool_name> <success> <response_time> <error_output> <session_id>"]),
                   !.proc = Exited([IdleProc EXCEPT !.argv = args, !.fault = w.fault], 1)]
    ELSE IF ~IsFloat(args[3])
    THEN [w EXCEPT !.output = Append(@, [stream |-> "stderr", text |->
              "ValueError: could not convert string to float"]),
                   !.proc = Exited([IdleProc EXCEPT !.argv = args,
                                                    !.fault = w.fault,
                                                    !.tool_name = args[1],
                                                    !.success = success_of(args[2])], 1)]
    ELSE LET proc == [IdleProc EXCEPT !.argv = args,
                                      !.fault = w.fault,
                                      !.tool_name = args[1],
                                      !.success = success_of(args[2]),
                                      !.response_time = ParseFloat(args[3]),
                                      !.error_output = error_output_of(args[4]),
                                      !.session_id = args[5]]
         IN IF ~is_mcp_tool(proc.tool_name)
            THEN [w EXCEPT !.proc = Exited(proc, 0)]
            ELSE IF proc.fault = "log"
            THEN [Uncaught(w, proc, open_error) EXCEPT !.now = @ + 1]
            ELSE [w EXCEPT !.trackerLog =
                               log_mcp_execution(@, w.now + 1, proc.tool_name,
                                   proc.success, proc.response_time,
                                   proc.error_output, proc.session_id),
                           !.now = @ + 1,
                           !.proc = [proc EXCEPT !.pc = "logged"]]

\* update_mcp_stats from the load to the in-memory stats it is about to save
main_load(w) ==
    IF w.proc.pc # "logged" THEN w
    ELSE IF ~is_mapping(w.statsFile)
    THEN [Uncaught(w, w.proc, not_mapping_error) EXCEPT !.now = @ + 1]
    ELSE [w EXCEPT !.proc.stats =
                       updated_stats(load_stats_file(w.statsFile), w.proc.tool_name,
                                     w.proc.success, w.proc.response_time,
                                     w.proc.error_output, w.now + 1),
                   !.now = @ + 1,
                   !.proc.pc = "loaded"]

\* open(STATS_FILE, 'w'), with the file left in place of the truncation
main_truncate_kept(w) ==
    IF w.proc.pc # "loaded" THEN w
    ELSE IF w.proc.fault = "stats" THEN Uncaught(w, w.proc, open_error)
    ELSE [w EXCEPT !.proc.pc = "truncated"]

\* open(STATS_FILE, 'w'): the file is cut to no content, which no load can parse
main_truncate(w) ==
    IF w.proc.pc # "loaded" THEN w
    ELSE IF w.proc.fault = "stats" THEN Uncaught(w, w.proc, open_error)
    ELSE [w EXCEPT !.statsFile = UnparseableFile, !.proc.pc = "truncated"]

\* json.dump(stats, f) and the close of the file
main_write(w) ==
    IF w.proc.pc # "truncated" THEN w
    ELSE [w EXCEPT !.statsFile = dump_stats(@, w.proc.stats), !.proc.pc = "saved"]

\* the save by a writer that, instead of truncating, checks the version on
\* disk and re-applies its call on top of a record that is not older than its own
main_save_reapplied(w) ==
    IF w.proc.pc # "loaded" THEN w
    ELSE IF w.proc.fault = "stats" THEN Uncaught(w, w.proc, open_error)
    ELSE [w EXCEPT !.statsFile = dump_stats_reapplied(@, w.proc.stats),
                   !.proc.pc = "saved"]

\* the save that ends update_mcp_stats, with no other process in between
main_save(w) == main_write(main_truncate(w))

\* "Generate recommendations periodically"
main_recommend(w) ==
    IF w.proc.pc # "saved" THEN w
    ELSE LET line_count == Len(LogLines(w.trackerLog)) IN
         IF line_count % 10 = 0 /\ w.proc.fault = "analysis" /\ w.statsFile.state = "valid"
         THEN [Uncaught(w, w.proc, open_error) EXCEPT !.now = @ + 1]
         ELSE IF line_count % 10 = 0
         THEN [w EXCEPT !.analysisFile =
                            generate_mcp_recommendations(w.statsFile, @, w.now + 1),
                        !.now = @ + 1,
                        !.proc.pc = "counted"]
         ELSE [w EXCEPT !.proc.pc = "counted"]

\* "Alert on repeated failures", and the exit
main_alert(w) ==
    IF w.proc.pc # "counted" THEN w
    ELSE [w EXCEPT !.output = @ \o alert_output(w.trackerLog, w.analysisFile,
                                               w.proc.tool_name, w.proc.success),
                   !.proc = Exited(@, 0)]

\* one invocation from start to exit, nothing else running
main(w, args) == main_alert(main_recommend(main_save(main_load(main_start(w, args)))))

(***************************************************************************)
(* SpecTrack: tracker invocations that do not overlap.                     *)
(***************************************************************************)
LongMalformed == "The request body could not be parsed by the server: MALFORMED payload"

TrackArgs ==
    { <<"mcp__alpha", "false", "300", e, "s1">> :
          e \in {"Connection timeout", "Unauthorized: network unreachable",
                 "Connection refused", "Invalid: rate limit not found",
                 LongMalformed, "File Not Found", "boom", "None"} }
    \cup { <<"mcp__alpha", "True", "1000", "Connection timeout", "s1">>,
           <<"mcp__beta", "false", "6000", "Connection timeout", "s1">>,
           <<"ls", "true", "300", "None", "s1">>,
           <<"mcp__alpha", "true", "300">> }

RunTracker(args) ==
    /\ started < MaxTracked
    /\ \A p \in Procs : procs[p].pc \in {"idle", "done"}
    /\ started' = started + 1
    /\ Commit(1, main(World(1), args))
    /\ UNCHANGED <<analyzerVars, session>>

NextTrack == \E args \in TrackArgs : RunTracker(args)

SpecTrack == Init /\ [][NextTrack]_vars

(***************************************************************************)
(* SpecContract: tracker invocations at the edge of the invocation         *)
(* contract: a store left corrupt, arguments missing or malformed, a tool  *)
(* outside the namespace, a write the file system refuses.                 *)
(***************************************************************************)
MaxContract == 3

ContractArgs ==
    { <<"mcp__alpha", "false", "300", "boom", "s1">>,
      <<"mcp__alpha", "true", "300", "None", "s1">>,
      <<"mcp__alpha", "false", "300", "Traceback:\n  boom", "s1">>,
      <<"ls", "true", "300", "None", "s1">>,
      <<"ls", "true", "fast", "None", "s1">>,
      <<"mcp__alpha", "true", "fast", "None", "s1">>,
      <<"mcp__alpha", "true", "300">> }

\* the invocations and what the file system refuses during each
ContractRuns ==
    (ContractArgs \X {"none"})
    \cup ({<<"mcp__alpha", "false", "300", "boom", "s1">>} \X {"log", "stats"})

InitContract ==
    /\ statsFile \in {AbsentFile, UnparseableFile, NotMappingFile}
    /\ trackerLog = <<>>
    /\ analysisFile = AbsentFile
    /\ output = <<>>
    /\ procs = [p \in Procs |-> IdleProc]
    /\ started = 0
    /\ now = 0
    /\ bashStatsFile = AbsentFile
    /\ combinedFile = AbsentFile
    /\ adaptiveFile = AbsentFile
    /\ runs = 0
    /\ session = NoSession

RunContract(args, fault) ==
    /\ started < MaxContract
    /\ \A p \in Procs : procs[p].pc \in {"idle", "done"}
    /\ started' = started + 1
    /\ Commit(1, main([World(1) EXCEPT !.fault = fault], args))
    /\ UNCHANGED <<analyzerVars, session>>

NextContract == \E run \in ContractRuns : RunContract(run[1], run[2])

SpecContract == InitContract /\ [][NextContract]_vars

(***************************************************************************)
(* SpecAlert: a long run of invocations of two tools, one that fails and   *)
(* one that succeeds, up to the periodic recommendations and the alert.    *)
(***************************************************************************)
MaxAlert == 12

AlertArgs ==
    { <<"mcp__alpha", "false", "300", "boom", "s1">>,
      <<"mcp__beta", "true", "300", "None", "s1">> }

\* the write of the recommendations can only be refused when the invocation
\* reaches it, on the line that brings the log to a multiple of 10
RunAlert(args, fault) ==
    /\ started < MaxAlert
    /\ \A p \in Procs : procs[p].pc \in {"idle", "done"}
    /\ fault = "none" \/ (fault = "analysis" /\ Len(LogLines(trackerLog)) % 10 = 9)
    /\ started' = started + 1
    /\ Commit(1, main([World(1) EXCEPT !.fault = fault], args))
    /\ UNCHANGED <<analyzerVars, session>>

NextAlert == \E args \in AlertArgs, fault \in {"none", "analysis"} : RunAlert(args, fault)

SpecAlert == Init /\ [][NextAlert]_vars

(***************************************************************************)
(* SpecPeriodic: a run of invocations of one tool up to the first periodic *)
(* recommendations, some of them with an error text of two lines.          *)
(***************************************************************************)
MaxPeriodic == 10

PeriodicArgs ==
    { <<"mcp__alpha", "true", "300", "None", "s1">>,
      <<"mcp__alpha", "false", "300", "Traceback:\n  boom", "s1">> }

RunPeriodic(args) ==
    /\ started < MaxPeriodic
    /\ \A p \in Procs : procs[p].pc \in {"idle", "done"}
    /\ started' = started + 1
    /\ Commit(1, main(World(1), args))
    /\ UNCHANGED <<analyzerVars, session>>

NextPeriodic == \E args \in PeriodicArgs : RunPeriodic(args)

SpecPeriodic == Init /\ [][NextPeriodic]_vars

(***************************************************************************)
(* Spec: tracker invocations that overlap, each step at its own time.      *)
(***************************************************************************)
InvokeArgs ==
    { <<"mcp__alpha", success, "300", "Connection timeout", "s1">> :
          success \in {"true", "false"} }
    \cup { <<"mcp__beta", "false", "300", "Connection timeout", "s1">> }

Start(p, args) ==
    /\ started < MaxInvocations
    /\ procs[p].pc \in {"idle", "done"}
    /\ started' = started + 1
    /\ Commit(p, main_start(World(p), args))
    /\ UNCHANGED <<analyzerVars, session>>

Load(p) ==
    /\ procs[p].pc = "logged"
    /\ Commit(p, main_load(World(p)))
    /\ UNCHANGED <<started, bashStatsFile, combinedFile, adaptiveFile, runs, session>>

Save(p) ==
    /\ procs[p].pc = "loaded"
    /\ Commit(p, main_save(World(p)))
    /\ UNCHANGED <<started, bashStatsFile, combinedFile, adaptiveFile, runs, session>>

Recommend(p) ==
    /\ procs[p].pc = "saved"
    /\ Commit(p, main_recommend(World(p)))
    /\ UNCHANGED <<started, bashStatsFile, combinedFile, adaptiveFile, runs, session>>

Alert(p) ==
    /\ procs[p].pc = "counted"
    /\ Commit(p, main_alert(World(p)))
    /\ UNCHANGED <<started, bashStatsFile, combinedFile, adaptiveFile, runs, session>>

Next ==
    \E p \in Procs :
        \/ \E args \in InvokeArgs : Start(p, args)
        \/ Load(p)
        \/ Save(p)
        \/ Recommend(p)
        \/ Alert(p)

Spec == Init /\ [][Next]_vars

(***************************************************************************)
(* SpecAnalyzer: the analyzer run over stores that other invocations left. *)
(***************************************************************************)
\* the record update_mcp_stats leaves for a tool after calls calls of 300 ms,
\* successes of them successful and the others failed with "Permission denied":
\* the counters of the first calls - 1, then the update of the last one
sample_stats(calls, successes) ==
    LET last_ok == successes = calls
        failed_before == calls - successes - (IF last_ok THEN 0 ELSE 1)
        before ==
            [NewToolStats EXCEPT
                !.total_calls = calls - 1,
                !.successful_calls = successes - (IF last_ok THEN 1 ELSE 0),
                !.failed_calls = failed_before,
                !.total_response_time = 300 * (calls - 1),
                !.common_errors = IF failed_before > 0
                                  THEN <<[k |-> "Permission denied", v |-> failed_before]>>
                                  ELSE <<>>,
                !.error_patterns = IF failed_before > 0
                                   THEN <<[k |-> "permission", v |-> failed_before]>>
                                   ELSE <<>>]
    IN updated_tool_stats(before, last_ok, 300, "Permission denied", 0)

\* records the tracker writes: [calls, successes] of each
McpSamples ==
    { sample_stats(c[1], c[2]) :
          c \in {<<1, 0>>, <<2, 1>>, <<10, 7>>, <<20, 17>>, <<20, 19>>, <<1, 1>>} }

Missing == [n |-> 0, d |-> 0]

SampleRates ==
    {Missing, Zero, Div(1, 2), Div(7, 10), Div(17, 20), Div(19, 20), FromInt(1)}

SampleErrors == { <<>>, <<[k |-> "Permission denied", v |-> 2]>> }

\* records of the bash statistics file; one without success_rate among them,
\* and records with an error text among the unreliable ones
BashSamples ==
    { IF rate = Missing
      THEN [total_executions |-> 5, average_execution_time |-> FromInt(2500),
            common_errors |-> errors]
      ELSE [total_executions |-> 5, average_execution_time |-> FromInt(2500),
            common_errors |-> errors, success_rate |-> rate] :
          rate \in {Missing, Div(1, 2)}, errors \in SampleErrors }
    \cup { [total_executions |-> 5, average_execution_time |-> FromInt(2500),
            common_errors |-> <<>>, success_rate |-> rate] :
               rate \in SampleRates \ {Missing} }

BashNames == {"find", "grep"}
McpNames == {"mcp__github__get"}

\* the mappings over some of names, in every key order
Stores(names, samples) ==
    UNION { { st \in [1..len -> {[k |-> name, v |-> rec] : name \in names, rec \in samples}] :
                \A i, j \in 1..len : i # j => st[i].k # st[j].k } :
            len \in 0..Cardinality(names) }

Files(names, samples) ==
    {AbsentFile, UnparseableFile, NotMappingFile}
        \cup {[state |-> "valid", data |-> st] : st \in Stores(names, samples)}

InitAnalyzer ==
    /\ statsFile \in Files(McpNames, McpSamples)
    /\ bashStatsFile \in Files(BashNames, BashSamples)
    /\ trackerLog = IF load_stats_file(statsFile) # <<>>
                    THEN log_mcp_execution(<<>>, 0, statsFile.data[1].k, TRUE, 300, "", "s1")
                    ELSE <<>>
    /\ analysisFile = AbsentFile
    /\ output = <<>>
    /\ procs = [p \in Procs |-> IdleProc]
    /\ started = 0
    /\ now = 0
    /\ combinedFile = AbsentFile
    /\ adaptiveFile = AbsentFile
    /\ runs = 0
    /\ session = NoSession

\* the orders in which a process may iterate a set of these names
\* the tools of a statistics mapping that have an error text; list(set(tools))
\* is taken of such tools only, so that only their order matters
NamesWithErrors(stats) ==
    {stats[i].k : i \in {j \in DOMAIN stats :
                            GetField(stats[j].v, "common_errors", <<>>) # <<>>}}

HashOrders(names) ==
    { order \in [1..Cardinality(names) -> names] :
          \A i, j \in 1..Cardinality(names) : i # j => order[i] # order[j] }

\* f"{score:.1f}": one decimal, rounded half to even
FormatFixed1(score) ==
    LET num == score.n * 10
        q == num \div score.d
        r == num % score.d
        up == (2 * r > score.d) \/ (2 * r = score.d /\ q % 2 = 1)
        m == IF up THEN q + 1 ELSE q
    IN ToString(m \div 10) \o "." \o ToString(m % 10)

\* the summary main() prints to stderr
summary_output(analysis) ==
    LET critical_tools == Len(analysis.reliability_tiers.tier_5_critical)
        immediate_actions == Len(analysis.recommendations.immediate_actions)
        Line(text) == [stream |-> "stderr", text |-> text]
    IN <<Line("Tool Reliability Analysis Complete"),
         Line("Analyzed " \o ToString(analysis.ecosystem_health.total_tools) \o " tools"),
         Line("Health Score: "
              \o FormatFixed1(analysis.ecosystem_health.health_score) \o "%")>>
       \o (IF critical_tools > 0
           THEN <<Line(ToString(critical_tools) \o " tools need immediate attention")>>
           ELSE <<>>)
       \o (IF immediate_actions > 0
           THEN <<Line(ToString(immediate_actions) \o " immediate actions recommended")>>
           ELSE <<>>)

\* the traceback of the exception that ends main() when a loaded value has no
\* items(): nothing is written
analyzer_crash_output ==
    <<[stream |-> "stderr", text |-> "AttributeError: object has no attribute 'items'"]>>

\* main() of a variant that writes the MCP store it loaded back to its file
RunAnalyzer_rewriting ==
    LET loaded == load_stats(bashStatsFile, statsFile) IN
    /\ runs < MaxRuns
    /\ IF is_mapping(bashStatsFile) /\ is_mapping(statsFile)
       THEN \E hash_order \in
                   HashOrders(NamesWithErrors(loaded.bash_stats)
                                  \cup NamesWithErrors(loaded.mcp_stats)) :
               LET analysis == analyze_tool_ecosystem(loaded.bash_stats, loaded.mcp_stats,
                                                      now + 1, hash_order)
               IN /\ combinedFile' = [state |-> "valid", data |-> analysis]
                  /\ adaptiveFile' = [state |-> "valid", data |-> analysis.recommendations]
                  /\ output' = output \o summary_output(analysis)
       ELSE /\ output' = output \o analyzer_crash_output
            /\ UNCHANGED <<combinedFile, adaptiveFile>>
    /\ statsFile' = [state |-> "valid", data |-> loaded.mcp_stats]
    /\ now' = now + 1
    /\ runs' = runs + 1
    /\ UNCHANGED <<bashStatsFile, trackerLog, analysisFile, procs, started, session>>

\* main() of the analyzer; generated_at reads the clock before the tools are merged
RunAnalyzer ==
    LET loaded == load_stats(bashStatsFile, statsFile) IN
    /\ runs < MaxRuns
    /\ IF is_mapping(bashStatsFile) /\ is_mapping(statsFile)
       THEN \E hash_order \in
                   HashOrders(NamesWithErrors(loaded.bash_stats)
                                  \cup NamesWithErrors(loaded.mcp_stats)) :
               LET analysis == analyze_tool_ecosystem(loaded.bash_stats, loaded.mcp_stats,
                                                      now + 1, hash_order)
               IN /\ combinedFile' = [state |-> "valid", data |-> analysis]
                  /\ adaptiveFile' = [state |-> "valid", data |-> analysis.recommendations]
                  /\ output' = output \o summary_output(analysis)
       ELSE /\ output' = output \o analyzer_crash_output
            /\ UNCHANGED <<combinedFile, adaptiveFile>>
    /\ now' = now + 1
    /\ runs' = runs + 1
    /\ UNCHANGED <<statsFile, bashStatsFile, trackerLog, analysisFile, procs, started, session>>

NextAnalyzer == RunAnalyzer

SpecAnalyzer == InitAnalyzer /\ [][NextAnalyzer]_vars


(***************************************************************************)
(* SpecEcosystem: the first run of the analyzer over stores of up to six   *)
(* tools, of which some are reliable and some share an error text.         *)
(***************************************************************************)
EcoNames == <<"find", "grep", "cat", "ls", "curl", "git">>

\* a record of the bash statistics file: reliable, failing with an error text,
\* or on the reliability limit with another text counted many times
EcoRecord(kind) ==
    CASE kind = "reliable" ->
             [total_executions |-> 5, average_execution_time |-> FromInt(2500),
              common_errors |-> <<>>, success_rate |-> Div(19, 20)]
      [] kind = "failing" ->
             [total_executions |-> 5, average_execution_time |-> FromInt(2500),
              common_errors |-> <<[k |-> "Permission denied", v |-> 2]>>,
              success_rate |-> Div(1, 2)]
      [] OTHER ->
             [total_executions |-> 90, average_execution_time |-> FromInt(2500),
              common_errors |-> <<[k |-> "permission denied", v |-> 50]>>,
              success_rate |-> Div(8, 10)]

\* a bash store of so many reliable, failing and noisy tools, in this order
EcoStore(reliable, failing, noisy) ==
    [i \in 1..(reliable + failing + noisy) |->
        [k |-> EcoNames[i],
         v |-> EcoRecord(IF i <= reliable THEN "reliable"
                         ELSE IF i <= reliable + failing THEN "failing"
                         ELSE "noisy")]]

EcoStores ==
    { EcoStore(n[1], n[2], n[3]) :
          n \in { m \in (0..Len(EcoNames)) \X (0..Len(EcoNames)) \X (0..2) :
                      m[1] + m[2] + m[3] <= Len(EcoNames) } }

\* an MCP store of one tool that shares the error text of the failing tools
EcoMcpStore == <<[k |-> "mcp__github__get", v |-> sample_stats(20, 19)]>>

InitEcosystem ==
    /\ bashStatsFile \in {[state |-> "valid", data |-> st] : st \in EcoStores}
    /\ statsFile \in {AbsentFile, [state |-> "valid", data |-> EcoMcpStore]}
    /\ Len(bashStatsFile.data) + Len(statsFile.data) <= Len(EcoNames)
    /\ trackerLog = <<>>
    /\ analysisFile = AbsentFile
    /\ output = <<>>
    /\ procs = [p \in Procs |-> IdleProc]
    /\ started = 0
    /\ now = 0
    /\ combinedFile = AbsentFile
    /\ adaptiveFile = AbsentFile
    /\ runs = 0
    /\ session = NoSession

\* main() of the analyzer when no combined analysis has been written yet
FirstRun == combinedFile.state = "absent" /\ RunAnalyzer

NextEcosystem == FirstRun

SpecEcosystem == InitEcosystem /\ [][NextEcosystem]_vars

(***************************************************************************)
(* SpecSlow: the first run of the analyzer over stores of up to eleven     *)
(* tools, some above the latency limit of the optimization suggestions.    *)
(***************************************************************************)
SlowNames ==
    <<"find", "grep", "cat", "ls", "curl", "git", "awk", "sed", "tar", "ssh", "make">>

\* a record of the bash statistics file with this average time
SlowRecord(avg_time) ==
    [total_executions |-> 5, average_execution_time |-> FromInt(avg_time),
     common_errors |-> <<>>, success_rate |-> Div(19, 20)]

\* a bash store of so many slow tools, each slower than the one before, then
\* of tools on the limit and of fast tools
SlowStore(slow, limit, fast) ==
    [i \in 1..(slow + limit + fast) |->
        [k |-> SlowNames[i],
         v |-> SlowRecord(IF i <= slow THEN 2000 + 100 * i
                          ELSE IF i <= slow + limit THEN 2000
                          ELSE 1000)]]

SlowStores ==
    { SlowStore(n[1], n[2], n[3]) :
          n \in { m \in (0..Len(SlowNames)) \X (0..1) \X (0..Len(SlowNames)) :
                      m[1] + m[2] + m[3] <= Len(SlowNames) } }

InitSlow ==
    /\ bashStatsFile \in {[state |-> "valid", data |-> st] : st \in SlowStores}
    /\ statsFile = AbsentFile
    /\ trackerLog = <<>>
    /\ analysisFile = AbsentFile
    /\ output = <<>>
    /\ procs = [p \in Procs |-> IdleProc]
    /\ started = 0
    /\ now = 0
    /\ combinedFile = AbsentFile
    /\ adaptiveFile = AbsentFile
    /\ runs = 0
    /\ session = NoSession

NextSlow == FirstRun

SpecSlow == InitSlow /\ [][NextSlow]_vars

(***************************************************************************)
(* SpecSession: a session that wants to end.  The host runs the stop hook; *)
(* a "block" response makes the session go on, and the next run of the     *)
(* hook in that stop sequence is given stop_hook_active true.              *)
(***************************************************************************)
MaxHookRuns == 4

\* what the first run of the hook can find on its stdin
FirstInputs ==
    { [json |-> "invalid", fields |-> <<>>], [json |-> "list", fields |-> <<>>],
      [json |-> "object", fields |-> <<>>] }
    \cup { [json |-> "object", fields |-> <<[k |-> "stop_hook_active", v |-> flag]>>] :
               flag \in {JTrue, JFalse, JStr("false")} }

\* what .claude/session-summary.json can hold
ConfigFiles ==
    { [state |-> st, data |-> <<>>] : st \in {"absent", "unparseable", "not_mapping"} }
    \cup { [state |-> "valid", data |-> <<>>] }
    \cup { [state |-> "valid", data |-> <<[k |-> "custom_reminders", v |-> custom]>>] :
               custom \in {JList(<<>>), JList(<<"Run make lint">>), JNum("5"),
                           JStr("ab"), JNull} }
    \cup { [state |-> "valid",
            data |-> <<[k |-> "show_git_reminders", v |-> JFalse],
                       [k |-> "custom_reminders", v |-> custom]>>] :
               custom \in {JList(<<>>), JList(<<"Run make lint">>)} }

InitSession ==
    /\ statsFile = AbsentFile
    /\ trackerLog = <<>>
    /\ analysisFile = AbsentFile
    /\ output = <<>>
    /\ procs = [p \in Procs |-> IdleProc]
    /\ started = 0
    /\ now = 0
    /\ bashStatsFile = AbsentFile
    /\ combinedFile = AbsentFile
    /\ adaptiveFile = AbsentFile
    /\ runs = 0
    /\ \E input \in FirstInputs, config_file \in ConfigFiles, changes \in BOOLEAN :
          session = [NoSession EXCEPT !.phase = "stopping", !.input = input,
                                      !.config_file = config_file,
                                      !.has_uncommitted_changes = changes]

\* the host runs the hook on a session that wants to stop
RunStopHook ==
    LET result == session_end_main(session.input, session.config_file,
                                   session.has_uncommitted_changes)
    IN /\ session.phase = "stopping"
       /\ session.invocations < MaxHookRuns
       /\ session' = [session EXCEPT
              !.phase = IF result.response.decision = "block" THEN "blocked" ELSE "ended",
              !.response = result.response,
              !.stderr = result.stderr,
              !.exit_code = result.exit_code,
              !.invocations = @ + 1,
              !.blocks = @ + (IF result.response.decision = "block" THEN 1 ELSE 0)]
       /\ UNCHANGED <<trackerVars, now, analyzerVars>>

\* the session has gone on after a block and wants to stop again
StopAgain ==
    /\ session.phase = "blocked"
    /\ session' = [session EXCEPT
           !.phase = "stopping",
           !.input = [json |-> "object",
                      fields |-> <<[k |-> "stop_hook_active", v |-> JTrue]>>]]
    /\ UNCHANGED <<trackerVars, now, analyzerVars>>

NextSession == RunStopHook \/ StopAgain

SpecSession == InitSession /\ [][NextSession]_vars /\ WF_vars(NextSession)

(***************************************************************************)
(* SpecWrite: overlapping tracker invocations and an analyzer run, with    *)
(* the save of the store in its two steps: the truncation by open() and    *)
(* the write.  They start after one invocation has run alone; started      *)
(* counts the invocations after that one.                                  *)
(***************************************************************************)
MaxWrites == 2

WriteArgs ==
    { <<"mcp__alpha", "false", "300", "boom", "s1">>,
      <<"mcp__beta", "false", "300", "boom", "s1">> }

StartWrite(p, args) ==
    /\ started < MaxWrites
    /\ procs[p].pc \in {"idle", "done"}
    /\ started' = started + 1
    /\ Commit(p, main_start(World(p), args))
    /\ UNCHANGED <<analyzerVars, session>>

Truncate(p) ==
    /\ procs[p].pc = "loaded"
    /\ Commit(p, main_truncate(World(p)))
    /\ UNCHANGED <<started, bashStatsFile, combinedFile, adaptiveFile, runs, session>>

\* the write, and the rest of main behind it
Write(p) ==
    /\ procs[p].pc = "truncated"
    /\ Commit(p, main_alert(main_recommend(main_write(World(p)))))
    /\ UNCHANGED <<started, bashStatsFile, combinedFile, adaptiveFile, runs, session>>

NextWrite ==
    \/ \E p \in Procs :
          \/ \E args \in WriteArgs : StartWrite(p, args)
          \/ Load(p)
          \/ Truncate(p)
          \/ Write(p)
    \/ FirstRun

\* the state one invocation of mcp__alpha leaves when it has run alone
InitWrite ==
    LET w == main([statsFile |-> AbsentFile, trackerLog |-> <<>>,
                   analysisFile |-> AbsentFile, output |-> <<>>, now |-> 0,
                   proc |-> IdleProc, fault |-> "none"],
                  <<"mcp__alpha", "false", "300", "boom", "s1">>)
    IN /\ statsFile = w.statsFile
       /\ trackerLog = w.trackerLog
       /\ analysisFile = w.analysisFile
       /\ output = w.output
       /\ now = w.now
       /\ procs = [p \in Procs |-> IF p = 1 THEN w.proc ELSE IdleProc]
       /\ started = 0
       /\ bashStatsFile = AbsentFile
       /\ combinedFile = AbsentFile
       /\ adaptiveFile = AbsentFile
       /\ runs = 0
       /\ session = NoSession

SpecWrite == InitWrite /\ [][NextWrite]_vars

(***************************************************************************)
(* Properties of the persisted tool records.                               *)
(***************************************************************************)
\* the records of the store on disk
Records ==
    IF statsFile.state = "valid"
    THEN {statsFile.data[i].v : i \in DOMAIN statsFile.data}
    ELSE {}

\* the record of a tool in a store file, or a fresh one when the file has none
RecordIn(file, tool_name) ==
    Get(lookup_or_create(load_stats_file(file), tool_name), tool_name)

RecordOf(tool_name) == RecordIn(statsFile, tool_name)

\* C1: after each update returns, every persisted record satisfies
\* successful_calls + failed_calls == total_calls, whatever the mix of
\* successes and failures, the latency and the error text (empty included).
C1_CountersAddUp ==
    \A r \in Records : r.successful_calls + r.failed_calls = r.total_calls

\* two tools on disk, one of them with successes, failures with a text and a
\* failure without text
C1_Witness ==
    /\ statsFile.state = "valid"
    /\ Len(statsFile.data) = 2
    /\ \E r \in Records :
          /\ r.successful_calls >= 1
          /\ r.failed_calls >= 2
          /\ SumValues(r.common_errors) >= 1
          /\ SumValues(r.common_errors) < r.failed_calls

\* C3: after every update the persisted success_rate is successful_calls /
\* total_calls and average_response_time is total_response_time / total_calls,
\* both taken from the counters of the same record; a record with no call has
\* success_rate 0.
C3_RatiosFromCounters ==
    /\ \A r \in Records :
          /\ r.total_calls > 0
          /\ r.success_rate.n * r.total_calls = r.successful_calls * r.success_rate.d
          /\ r.average_response_time.n * r.total_calls
                 = r.total_response_time * r.average_response_time.d
    /\ \A tool_name \in UpdTools \cup {"mcp__unseen"} :
          RecordOf(tool_name).total_calls = 0
              => RecordOf(tool_name).success_rate = Zero

\* a record whose ratios are not integers and differ from the ratios of the
\* previous update's counters
C3_Witness ==
    \E r \in Records :
        /\ r.total_calls = 7
        /\ r.successful_calls = 3
        /\ r.total_response_time = 5 * 300 + 2 * 1000
        /\ r.success_rate = [n |-> 3, d |-> 7]
        /\ r.average_response_time = FromInt(500)

\* C4: in every reachable store every tool's reliability_score is in [0, 100].
C4_ScoreInRange ==
    \A r \in Records :
        /\ RatGE(r.reliability_score, Zero)
        /\ RatLE(r.reliability_score, FromInt(100))

\* both ends of the range are reached past the last stability band
C4_Witness ==
    \E r \in Records :
        /\ r.total_calls > 20
        /\ r.successful_calls = r.total_calls
        /\ r.reliability_score = FromInt(100)

\* the performance band of the statement of C5
BandP(avg_time) ==
    CASE RatLT(avg_time, FromInt(500)) -> 20
      [] RatGE(avg_time, FromInt(500)) /\ RatLT(avg_time, FromInt(1000)) -> 15
      [] RatGE(avg_time, FromInt(1000)) /\ RatLT(avg_time, FromInt(2000)) -> 10
      [] RatGE(avg_time, FromInt(2000)) /\ RatLT(avg_time, FromInt(5000)) -> 5
      [] OTHER -> 0

\* the stability band of the statement of C5
BandS(total_calls) ==
    CASE total_calls > 20 -> 10
      [] total_calls > 10 /\ total_calls <= 20 -> 7
      [] total_calls > 5 /\ total_calls <= 10 -> 5
      [] OTHER -> total_calls

\* C5: after every update reliability_score equals success_rate * 70 +
\* P(average_response_time) + S(total_calls) with the bands above, so it is a
\* function of these three fields of the record and of nothing else.
C5_ScoreFormula ==
    \A r \in Records :
        r.reliability_score =
            RatAdd(RatMul(r.success_rate, FromInt(70)),
                   FromInt(BandP(r.average_response_time) + BandS(r.total_calls)))

\* an average exactly on a band limit, at a call count exactly on a band limit
C5_Witness ==
    \E r \in Records :
        /\ r.average_response_time = FromInt(1000)
        /\ r.total_calls = 20
        /\ r.successful_calls = 10
        /\ r.reliability_score = FromInt(35 + 10 + 7)

\* the record of scenario alpha: ten calls of 300 ms, nine of them successes
ScenarioAlpha(r) ==
    /\ r.total_calls = 10
    /\ r.successful_calls = 9
    /\ r.failed_calls = 1
    /\ r.total_response_time = 10 * 300

\* C6 as stated: scenario alpha ends with success_rate 0.9, category "fast" and
\* reliability_score 0.9*70 + 20 + 7 = 90.
C6_ScenarioAlphaStated ==
    \A r \in Records :
        ScenarioAlpha(r) =>
            /\ r.success_rate = Div(9, 10)
            /\ r.performance_category = "fast"
            /\ r.reliability_score = FromInt(90)

\* C6: scenario alpha ends with success_rate 0.9, category "fast" and
\* reliability_score 0.9*70 + 20 + 5 = 88: ten calls are not more than ten, so
\* the stability factor is 5.
C6_ScenarioAlpha ==
    \A r \in Records :
        ScenarioAlpha(r) =>
            /\ r.success_rate = Div(9, 10)
            /\ r.performance_category = "fast"
            /\ r.reliability_score = FromInt(88)

C6_Witness == \E r \in Records : ScenarioAlpha(r)

(***************************************************************************)
(* Properties of the error classification, over the tracker's invocations. *)
(***************************************************************************)
TaxonomyLabels == {Taxonomy[i] : i \in DOMAIN Taxonomy}

\* the invocation a step of the tracker has run to its end with an update
Updated ==
    /\ started' = started + 1
    /\ procs'[1].pc = "done"
    /\ procs'[1].exit_code = 0
    /\ StartsWith(procs'[1].argv[1], "mcp__")

\* error_patterns and common_errors of the invocation's tool before and after
PatternsBefore == RecordIn(statsFile, procs'[1].argv[1]).error_patterns
PatternsAfter == RecordIn(statsFile', procs'[1].argv[1]).error_patterns
CommonBefore == RecordIn(statsFile, procs'[1].argv[1]).common_errors
CommonAfter == RecordIn(statsFile', procs'[1].argv[1]).common_errors

\* the step adds one to the count of this label and to no other count
CountsOnly(label) ==
    /\ Keys(PatternsAfter) = Keys(PatternsBefore) \cup {label}
    /\ \A l \in TaxonomyLabels :
          GetOr(PatternsAfter, l, 0) =
              GetOr(PatternsBefore, l, 0) + (IF l = label THEN 1 ELSE 0)

\* the invocation reports a failure with an error text
FailedWithText ==
    /\ ~procs'[1].success
    /\ procs'[1].argv[4] \notin {"", "None"}

\* C8: a failed update with a non-empty error text adds 1 to exactly one of the
\* seven labels and leaves the other six alone, the label being the one the same
\* text gets on a record without history; a failed update without text ('None')
\* and a successful update leave error_patterns and common_errors as they were.
C8_OneLabelPerError ==
    [][Updated =>
          IF FailedWithText
          THEN /\ Keys(PatternsAfter) \subseteq TaxonomyLabels
               /\ \E label \in TaxonomyLabels :
                     /\ CountsOnly(label)
                     /\ \A other \in TaxonomyLabels : CountsOnly(other) => other = label
                     /\ categorize_error(NewToolStats, procs'[1].argv[4]).error_patterns
                            = <<[k |-> label, v |-> 1]>>
          ELSE /\ PatternsAfter = PatternsBefore
               /\ CommonAfter = CommonBefore]_vars

\* three labels counted on one tool that also failed once without a text
C8_Witness ==
    \E r \in Records :
        /\ Len(r.error_patterns) = 3
        /\ SumValues(r.error_patterns) = 3
        /\ r.failed_calls = 4

\* the keywords of each label of the taxonomy, "other" having none
KeywordsOf(label) ==
    CASE label = "timeout" -> {"timeout"}
      [] label = "permission" -> {"permission", "unauthorized"}
      [] label = "network" -> {"network", "connection"}
      [] label = "rate_limit" -> {"rate limit"}
      [] label = "invalid_input" -> {"invalid", "malformed"}
      [] label = "not_found" -> {"not found"}
      [] OTHER -> {}

\* the labels whose keywords occur in the text, letter case apart
Matching(text) ==
    LET lowered == Lower(text) IN
    {i \in DOMAIN Taxonomy :
        \E keyword \in KeywordsOf(Taxonomy[i]) : Contains(lowered, keyword)}

\* the earliest matching label in the order of the taxonomy, else "other"
FirstMatch(text) ==
    LET matching == Matching(text) IN
    IF matching = {} THEN "other"
    ELSE Taxonomy[CHOOSE i \in matching : \A j \in matching : i <= j]

\* C9: the label counted for an error text is the earliest label, in the order
\* timeout, permission, network, rate_limit, invalid_input, not_found, whose
\* keyword occurs in the text whatever the letter case, and "other" when none
\* occurs; four failures with "Connection timeout" and no other text leave
\* error_patterns with timeout == 4 and no network count.
C9_FirstMatchWins ==
    /\ [][Updated /\ FailedWithText => CountsOnly(FirstMatch(procs'[1].argv[4]))]_vars
    /\ [](\A r \in Records :
             r.common_errors = <<[k |-> "Connection timeout", v |-> 4]>>
                 => r.error_patterns = <<[k |-> "timeout", v |-> 4]>>)

\* four "Connection timeout" failures of one tool are on disk
C9_Witness ==
    \E r \in Records :
        /\ r.failed_calls = 4
        /\ r.common_errors = <<[k |-> "Connection timeout", v |-> 4]>>
        /\ GetOr(r.error_patterns, "timeout", 0) = 4
        /\ ~HasKey(r.error_patterns, "network")

(***************************************************************************)
(* Properties of overlapping tracker invocations.                          *)
(***************************************************************************)
\* the invocation of p has written its copy of the store
Persisted(p) == procs[p].pc \in {"saved", "counted", "done"} /\ procs[p].stats # <<>>

\* total_calls of a tool in a copy of the store, 0 when the copy has no record
CallsIn(stats, tool_name) ==
    IF HasKey(stats, tool_name) THEN Get(stats, tool_name).total_calls ELSE 0

\* total_calls of its tool in the copy the invocation of p has written
OwnCalls(p) == CallsIn(procs[p].stats, procs[p].tool_name)

\* the copy of q was loaded after the update of p reached the disk
InCopy(q, p) ==
    CallsIn(procs[q].stats, procs[p].tool_name)
        >= OwnCalls(p) + (IF procs[q].tool_name = procs[p].tool_name THEN 1 ELSE 0)

\* two invocations have written, each from a copy loaded before the other wrote
BothLoadedFirst(p, q) ==
    /\ p # q
    /\ Persisted(p) /\ Persisted(q)
    /\ ~InCopy(q, p) /\ ~InCopy(p, q)

\* C2: when two invocations both load the store before either persists, the
\* store ends as the copy of the later writer, without the update of the
\* earlier one: two updates of one tool leave total_calls one higher, not two,
\* and of two updates of different tools one is missing.
C2_LostUpdate ==
    \A p, q \in Procs :
        BothLoadedFirst(p, q) =>
            /\ load_stats_file(statsFile) \in {procs[p].stats, procs[q].stats}
            /\ IF procs[p].tool_name = procs[q].tool_name
               THEN /\ OwnCalls(p) = OwnCalls(q)
                    /\ CallsIn(load_stats_file(statsFile), procs[p].tool_name)
                           = OwnCalls(p)
               ELSE \/ CallsIn(load_stats_file(statsFile), procs[p].tool_name)
                           < OwnCalls(p)
                    \/ CallsIn(load_stats_file(statsFile), procs[q].tool_name)
                           < OwnCalls(q)

\* the interleaving happens: two updates of one tool from the same loaded
\* store are both written, and the tool has one call more on disk
C2_Witness ==
    /\ BothLoadedFirst(1, 2)
    /\ procs[1].tool_name = procs[2].tool_name
    /\ procs[1].pc = "done" /\ procs[2].pc = "done"
    /\ OwnCalls(1) = 2
    /\ CallsIn(load_stats_file(statsFile), procs[1].tool_name) = 2

(***************************************************************************)
(* Properties of the analyzer's documents.                                 *)
(***************************************************************************)
TierNames ==
    {"tier_1_excellent", "tier_2_good", "tier_3_fair", "tier_4_poor", "tier_5_critical"}

\* the names of the tools of the two statistics stores
StoredNames ==
    Keys(load_stats(bashStatsFile, statsFile).bash_stats)
        \cup Keys(load_stats(bashStatsFile, statsFile).mcp_stats)

\* the success_rate a store holds for a tool, the MCP store first; 0 when the
\* record has none
StoredRate(name) ==
    LET loaded == load_stats(bashStatsFile, statsFile) IN
    IF HasKey(loaded.mcp_stats, name)
    THEN GetField(Get(loaded.mcp_stats, name), "success_rate", Zero)
    ELSE GetField(Get(loaded.bash_stats, name), "success_rate", Zero)

\* the tier of the statement of C7
TierFor(rate) ==
    CASE RatGE(rate, Div(95, 100)) -> "tier_1_excellent"
      [] RatLT(rate, Div(95, 100)) /\ RatGE(rate, Div(85, 100)) -> "tier_2_good"
      [] RatLT(rate, Div(85, 100)) /\ RatGE(rate, Div(70, 100)) -> "tier_3_fair"
      [] RatLT(rate, Div(70, 100)) /\ RatGE(rate, Div(50, 100)) -> "tier_4_poor"
      [] OTHER -> "tier_5_critical"

\* the places <<tier, index>> of the written tier lists that name a tool
PlacesOf(tiers, name) ==
    {place \in UNION {{<<t, i>> : i \in DOMAIN tiers[t]} : t \in TierNames} :
        tiers[place[1]][place[2]].tool = name}

\* C7: the five tier lists the analyzer writes partition the tools of the two
\* stores: each tool is named once, in the tier of its success_rate (>= 0.95,
\* >= 0.85, >= 0.70, >= 0.50, else; a missing rate read as 0), and the five
\* lengths add up to the number of tools.
C7_TiersPartition ==
    combinedFile.state = "valid" =>
        LET tiers == combinedFile.data.reliability_tiers IN
        /\ DOMAIN tiers = TierNames
        /\ \A name \in StoredNames :
              /\ Cardinality(PlacesOf(tiers, name)) = 1
              /\ \A place \in PlacesOf(tiers, name) : place[1] = TierFor(StoredRate(name))
        /\ Len(tiers.tier_1_excellent) + Len(tiers.tier_2_good) + Len(tiers.tier_3_fair)
               + Len(tiers.tier_4_poor) + Len(tiers.tier_5_critical)
               = Cardinality(StoredNames)

\* three tools in three tiers, one of them on a tier limit and one without a
\* success_rate
C7_Witness ==
    /\ combinedFile.state = "valid"
    /\ Cardinality(StoredNames) = 3
    /\ \E name \in StoredNames : StoredRate(name) = Div(85, 100)
    /\ \E i \in DOMAIN bashStatsFile.data :
          "success_rate" \notin DOMAIN bashStatsFile.data[i].v
    /\ Len(combinedFile.data.reliability_tiers.tier_1_excellent) = 1
    /\ Len(combinedFile.data.reliability_tiers.tier_2_good) = 1
    /\ Len(combinedFile.data.reliability_tiers.tier_5_critical) = 1

\* C10 as stated: a run of the analyzer over stores that did not change since
\* the previous run writes the same two documents as that run, list orders
\* included, but for generated_at.
C10_Idempotent ==
    [][(runs >= 1 /\ runs' = runs + 1
            /\ statsFile' = statsFile /\ bashStatsFile' = bashStatsFile) =>
          /\ [combinedFile'.data EXCEPT !.generated_at = 0]
                 = [combinedFile.data EXCEPT !.generated_at = 0]
          /\ adaptiveFile' = adaptiveFile]_vars

\* C11: a run of the analyzer leaves the two statistics files, the execution
\* log and the tracker's analysis file as they were, whether it ends with a
\* summary or with an exception; the only files it writes are the
\* combined-analysis document and the recommendations document.
C11_AnalyzerFrame ==
    [][runs' = runs + 1 =>
          /\ statsFile' = statsFile
          /\ bashStatsFile' = bashStatsFile
          /\ trackerLog' = trackerLog
          /\ analysisFile' = analysisFile
          /\ \/ combinedFile'.state = "valid" /\ adaptiveFile'.state = "valid"
             \/ combinedFile' = combinedFile /\ adaptiveFile' = adaptiveFile]_vars

\* two runs have written the documents over stores with records, an MCP store
\* that does not parse in the first case, and a log with a line
C11_Witness ==
    /\ runs = 2
    /\ combinedFile.state = "valid" /\ adaptiveFile.state = "valid"
    /\ \/ statsFile.state = "valid" /\ statsFile.data # <<>> /\ trackerLog # <<>>
       \/ statsFile.state = "unparseable"
    /\ bashStatsFile.state = "valid" /\ Len(bashStatsFile.data) = 2

\* the trend of the statement of C18 for an all-time success rate
TrendFor(rate) ==
    CASE RatGT(rate, Div(9, 10)) -> "improving"
      [] RatLT(rate, Div(7, 10)) -> "declining"
      [] OTHER -> "stable"

\* C18: a record with total_calls >= 10 has the trend of its all-time
\* success_rate (improving above 0.9, declining below 0.7, else stable); an
\* update that leaves total_calls < 10 leaves trend as it was, so from an empty
\* store trend is "stable" while total_calls < 10.
C18_Trend ==
    /\ [](\A r \in Records :
             r.trend = IF r.total_calls >= 10
                       THEN TrendFor(Div(r.successful_calls, r.total_calls))
                       ELSE "stable")
    /\ [][\A tool_name \in UpdTools :
             RecordIn(statsFile', tool_name).total_calls < 10 =>
                 RecordIn(statsFile', tool_name).trend
                     = RecordIn(statsFile, tool_name).trend]_vars

\* the tenth call leaves a success rate of exactly 0.9, which is not above it
C18_Witness ==
    \E r \in Records :
        /\ r.total_calls = 10
        /\ r.successful_calls = 9
        /\ r.trend = "stable"

\* the record a store holds for a tool, the MCP store first
StoredRecord(name) ==
    LET loaded == load_stats(bashStatsFile, statsFile) IN
    IF HasKey(loaded.mcp_stats, name) THEN Get(loaded.mcp_stats, name)
    ELSE Get(loaded.bash_stats, name)

\* the tools whose common_errors hold this very text as a key
ToolsWith(text) ==
    {name \in StoredNames : HasKey(GetField(StoredRecord(name), "common_errors", <<>>), text)}

\* the error texts of the stores
StoredTexts ==
    UNION {Keys(GetField(StoredRecord(name), "common_errors", <<>>)) : name \in StoredNames}

\* C19: the analyzer lists an error text in systemic_issues exactly when that
\* very text is a common_errors key of at least 3 distinct tools, once, with
\* the tools that have it, and with severity "high" when more than 5 tools
\* share it and "medium" otherwise; a text of 1 or 2 tools is not listed
\* whatever its counts.
C19_SystemicIssues ==
    combinedFile.state = "valid" =>
        LET issues == combinedFile.data.error_correlations.systemic_issues IN
        /\ \A text \in StoredTexts :
              Cardinality({i \in DOMAIN issues : issues[i].error = text})
                  = IF Cardinality(ToolsWith(text)) >= 3 THEN 1 ELSE 0
        /\ \A i \in DOMAIN issues :
              /\ issues[i].error \in StoredTexts
              /\ {issues[i].affected_tools[j] : j \in DOMAIN issues[i].affected_tools}
                     = ToolsWith(issues[i].error)
              /\ issues[i].severity =
                     IF Cardinality(ToolsWith(issues[i].error)) > 5
                     THEN "high" ELSE "medium"

\* three tools share one text, two tools share another counted fifty times
\* each: one issue of medium severity
C19_Witness ==
    /\ combinedFile.state = "valid"
    /\ Cardinality(ToolsWith("Permission denied")) = 3
    /\ Cardinality(ToolsWith("permission denied")) = 2
    /\ Len(combinedFile.data.error_correlations.systemic_issues) = 1
    /\ combinedFile.data.error_correlations.systemic_issues[1].severity = "medium"

\* the health category of the statement of C20
HealthCategoryFor(score) ==
    CASE RatGE(score, FromInt(90)) -> "excellent"
      [] RatLT(score, FromInt(90)) /\ RatGE(score, FromInt(80)) -> "good"
      [] RatLT(score, FromInt(80)) /\ RatGE(score, FromInt(70)) -> "fair"
      [] RatLT(score, FromInt(70)) /\ RatGE(score, FromInt(60)) -> "poor"
      [] OTHER -> "critical"

\* C20: health_score is the number of tools with success_rate > 0.8 over the
\* number of tools, times 100, and 0 without tools; it lies in [0, 100];
\* health_category is excellent from 90, good from 80, fair from 70, poor
\* from 60 and critical below.
C20_EcosystemHealth ==
    combinedFile.state = "valid" =>
        LET health == combinedFile.data.ecosystem_health
            total == Cardinality(StoredNames)
            reliable == Cardinality({name \in StoredNames :
                                        RatGT(StoredRate(name), Div(8, 10))})
        IN /\ health.total_tools = total
           /\ IF total = 0 THEN health.health_score = Zero
              ELSE health.health_score.n * total
                       = reliable * 100 * health.health_score.d
           /\ RatGE(health.health_score, Zero)
           /\ RatLE(health.health_score, FromInt(100))
           /\ health.health_category = HealthCategoryFor(health.health_score)

\* four of five tools are reliable, the fifth has a success_rate of exactly
\* 0.8: the score is exactly 80
C20_Witness ==
    /\ combinedFile.state = "valid"
    /\ Cardinality(StoredNames) = 5
    /\ \E name \in StoredNames : StoredRate(name) = Div(8, 10)
    /\ combinedFile.data.ecosystem_health.health_score = FromInt(80)
    /\ combinedFile.data.ecosystem_health.health_category = "good"

\* the invocation that has just run was given five arguments and a numeric
\* response time
WellFormed(argv) == Len(argv) >= 5 /\ IsFloat(argv[3])

\* the invocation that has just run names a tool of the tracked namespace
Tracked(argv) == Len(argv) >= 1 /\ StartsWith(argv[1], "mcp__")

\* the texts written to stderr
Stderr(out) == SelectSeq(out, LAMBDA o : o.stream = "stderr")

\* C12 as stated: an update over a store that is absent, unparseable or no
\* mapping treats it as empty and completes without an error; afterwards the
\* store holds exactly the updated tool with total_calls = 1.
C12_SelfHealing ==
    [][(/\ started' = started + 1
        /\ statsFile.state # "valid"
        /\ WellFormed(procs'[1].argv)
        /\ Tracked(procs'[1].argv)
        /\ procs'[1].fault = "none")
       => /\ procs'[1].exit_code = 0
          /\ statsFile'.state = "valid"
          /\ Keys(statsFile'.data) = {procs'[1].argv[1]}
          /\ RecordIn(statsFile', procs'[1].argv[1]).total_calls = 1]_vars

\* C13 as stated: a tracker invocation given five well-formed arguments exits
\* with status 0 even when the append to the log, the write of the store or the
\* write of the recommendations fails.
C13_NeverPropagated ==
    [][(/\ started' = started + 1
        /\ WellFormed(procs'[1].argv)
        /\ procs'[1].fault # "none")
       => procs'[1].exit_code = 0]_vars

\* what the invocation that has just run has printed
Printed(before, after) == SubSeq(after, Len(before) + 1, Len(after))

\* C14 as stated: an invocation with fewer than five arguments or with a response
\* time that is no number exits non-zero, prints the usage message and leaves the
\* log and the store unchanged.
C14_MalformedRejected ==
    [][(/\ started' = started + 1
        /\ ~WellFormed(procs'[1].argv))
       => /\ procs'[1].exit_code # 0
          /\ \E i \in DOMAIN Printed(output, output') :
                StartsWith(Printed(output, output')[i].text, "Usage:")
          /\ trackerLog' = trackerLog
          /\ statsFile' = statsFile]_vars

\* C15 as stated: every invocation whose tool name does not start with 'mcp__'
\* exits with status 0, appends nothing to the log, leaves the store and the
\* analysis file unchanged and prints nothing.
C15_OutsideNamespaceStated ==
    [][(/\ started' = started + 1
        /\ Len(procs'[1].argv) >= 1
        /\ ~Tracked(procs'[1].argv))
       => /\ procs'[1].exit_code = 0
          /\ trackerLog' = trackerLog
          /\ statsFile' = statsFile
          /\ analysisFile' = analysisFile
          /\ output' = output]_vars

\* C15: an invocation whose tool name does not start with 'mcp__' appends
\* nothing to the log, leaves the store and the analysis file unchanged and
\* prints no warning; given five arguments with a numeric response time it
\* exits with status 0 and prints nothing at all, otherwise it is rejected with
\* a non-zero exit before the tool name is looked at.
C15_OutsideNamespace ==
    [][(/\ started' = started + 1
        /\ Len(procs'[1].argv) >= 1
        /\ ~Tracked(procs'[1].argv))
       => /\ trackerLog' = trackerLog
          /\ statsFile' = statsFile
          /\ analysisFile' = analysisFile
          /\ \A i \in DOMAIN Printed(output, output') :
                ~StartsWith(Printed(output, output')[i].text, "WARNING")
          /\ IF WellFormed(procs'[1].argv)
             THEN procs'[1].exit_code = 0 /\ output' = output
             ELSE procs'[1].exit_code # 0]_vars

\* a well-formed invocation for "ls" has exited with status 0 over a log and a
\* store that earlier invocations had filled
C15_Witness ==
    /\ procs[1].argv = <<"ls", "true", "300", "None", "s1">>
    /\ procs[1].exit_code = 0
    /\ Len(trackerLog) = 2
    /\ statsFile.state = "valid"

\* C16 as stated: each tracked invocation adds exactly one line to the log,
\* whatever the error text, and leaves the lines before it as they were.
C16_OneLinePerInvocation ==
    [][(/\ started' = started + 1
        /\ WellFormed(procs'[1].argv)
        /\ Tracked(procs'[1].argv)
        /\ procs'[1].fault = "none")
       => /\ Len(LogLines(trackerLog')) = Len(LogLines(trackerLog)) + 1
          /\ SubSeq(LogLines(trackerLog'), 1, Len(LogLines(trackerLog)))
                 = LogLines(trackerLog)]_vars

\* the log entries of a tool, oldest first
EntriesOf(log, tool_name) ==
    SelectSeq(log, LAMBDA entry : Contains(entry, "] " \o tool_name \o " "))

\* the 3 most recent log entries of the tool exist and are failures
ThreeFailures(log, tool_name) ==
    LET entries == EntriesOf(log, tool_name) IN
    /\ Len(entries) >= 3
    /\ \A i \in (Len(entries) - 2)..Len(entries) : Contains(entries[i], " FAILURE ")

\* C17 as stated: an invocation that fails while the 3 most recent log entries
\* of its tool are failures prints a warning, whatever entries of other tools lie
\* in between.
C17_FailureAlert ==
    [][(/\ started' = started + 1
        /\ WellFormed(procs'[1].argv)
        /\ Tracked(procs'[1].argv)
        /\ procs'[1].fault = "none"
        /\ ~procs'[1].success
        /\ ThreeFailures(trackerLog, procs'[1].argv[1]))
       => \E i \in DOMAIN Printed(output, output') :
              StartsWith(Printed(output, output')[i].text, "WARNING")]_vars

\* C21 as stated: a record that is in the store stays in the store in the next
\* state, and its total_calls does not decrease.
C21_RecordsMonotonic ==
    [][\A name \in Keys(load_stats_file(statsFile)) :
          /\ HasKey(load_stats_file(statsFile'), name)
          /\ CallsIn(load_stats_file(statsFile'), name)
                 >= CallsIn(load_stats_file(statsFile), name)]_vars

\* the tool names the invocations of the model are given
InvokedNames == {"mcp__alpha", "mcp__beta", "ls"}

\* C22: a tool has a record in the store exactly when an update for it has
\* run (every update follows its log entry); the update that creates the
\* record leaves it with total_calls = 1 and successful_calls + failed_calls = 1.
C22_FirstUpdate ==
    /\ [](\A name \in InvokedNames :
              HasKey(load_stats_file(statsFile), name)
                  <=> EntriesOf(trackerLog, name) # <<>>)
    /\ [][\A name \in InvokedNames :
              (/\ ~HasKey(load_stats_file(statsFile), name)
               /\ HasKey(load_stats_file(statsFile'), name))
              => /\ RecordIn(statsFile', name).total_calls = 1
                 /\ RecordIn(statsFile', name).successful_calls
                        + RecordIn(statsFile', name).failed_calls = 1]_vars

\* mcp__beta has just had its first update in a store that already held
\* mcp__alpha with several calls
C22_Witness ==
    /\ Keys(load_stats_file(statsFile)) = {"mcp__alpha", "mcp__beta"}
    /\ RecordOf("mcp__alpha").total_calls = 3
    /\ RecordOf("mcp__beta").total_calls = 1
    /\ procs[1].tool_name = "mcp__beta"

\* C27: an invocation that runs alone over a well-formed store leaves the
\* record of every tool other than its own in the store with every field as
\* it was.
C27_UpdateFrame ==
    [][(started' = started + 1 /\ statsFile.state = "valid")
       => /\ statsFile'.state = "valid"
          /\ \A i \in DOMAIN statsFile.data :
                statsFile.data[i].k # procs'[1].tool_name
                => /\ HasKey(statsFile'.data, statsFile.data[i].k)
                   /\ Get(statsFile'.data, statsFile.data[i].k) = statsFile.data[i].v]_vars

\* the last update was one of mcp__beta, in a store where mcp__alpha had a
\* record with two calls
C27_Witness ==
    /\ statsFile.state = "valid"
    /\ procs[1].tool_name = "mcp__beta"
    /\ procs[1].exit_code = 0
    /\ HasKey(statsFile.data, "mcp__alpha")
    /\ Get(statsFile.data, "mcp__alpha").total_calls = 2
    /\ Get(statsFile.data, "mcp__beta").total_calls = 2

\* the log entries of a tool that report a failure and carry an error snippet
FailuresWithText(log, tool_name) ==
    SelectSeq(EntriesOf(log, tool_name),
              LAMBDA entry : /\ Contains(entry, " FAILURE ")
                             /\ SubSeq(entry, Len(entry) - 3, Len(entry)) # "ms \n")

\* C28: in runs of updates that do not overlap, from an empty store, the counts
\* of common_errors and the counts of error_patterns of a tool both add up to
\* the number of its failed updates that carried an error text, which is at most
\* failed_calls; each such update adds 1 to the count of one common_errors key,
\* the first 50 characters of the text, stripped, and changes no other key.
C28_ErrorCounters ==
    /\ [](\A name \in Keys(load_stats_file(statsFile)) :
              /\ SumValues(RecordOf(name).common_errors)
                     = Len(FailuresWithText(trackerLog, name))
              /\ SumValues(RecordOf(name).error_patterns)
                     = Len(FailuresWithText(trackerLog, name))
              /\ Len(FailuresWithText(trackerLog, name)) <= RecordOf(name).failed_calls)
    /\ [][(Updated /\ FailedWithText)
          => LET error_key == Strip(Prefix(procs'[1].argv[4], 50)) IN
             /\ Keys(CommonAfter) = Keys(CommonBefore) \cup {error_key}
             /\ GetOr(CommonAfter, error_key, 0) = GetOr(CommonBefore, error_key, 0) + 1
             /\ \A i \in DOMAIN CommonBefore :
                   CommonBefore[i].k # error_key
                   => Get(CommonAfter, CommonBefore[i].k) = CommonBefore[i].v]_vars

\* a tool that failed four times, once without text, twice with the same text
\* and once with a text longer than 50 characters
C28_Witness ==
    \E r \in Records :
        /\ r.failed_calls = 4
        /\ SumValues(r.common_errors) = 3
        /\ GetOr(r.common_errors, "Connection timeout", 0) = 2
        /\ GetOr(r.common_errors, Prefix(LongMalformed, 50), 0) = 1
        /\ Len(Prefix(LongMalformed, 50)) < Len(LongMalformed)

\* C29 as stated: in a run of invocations that do not overlap, the analysis
\* file is rewritten by every 10th tracked invocation and left alone by the
\* others.
C29_EveryTenth ==
    [][(/\ started' = started + 1
        /\ WellFormed(procs'[1].argv)
        /\ Tracked(procs'[1].argv))
       => (analysisFile' # analysisFile <=> started' % 10 = 0)]_vars

\* C25: in every interleaving of tracker invocations the total_calls the store
\* holds for a tool is at most the number of log entries of that tool, and an
\* entry once in the log stays in the log.
C25_LogAhead ==
    /\ [](\A name \in InvokedNames :
              CallsIn(load_stats_file(statsFile), name) <= Len(EntriesOf(trackerLog, name)))
    /\ [][/\ Len(trackerLog') >= Len(trackerLog)
          /\ SubSeq(trackerLog', 1, Len(trackerLog)) = trackerLog]_vars

\* two overlapping invocations of one tool have both ended: two log entries,
\* one call in the store
C25_Witness ==
    /\ \A p \in Procs : procs[p].pc = "done" /\ procs[p].tool_name = "mcp__alpha"
    /\ Len(EntriesOf(trackerLog, "mcp__alpha")) = 2
    /\ CallsIn(load_stats_file(statsFile), "mcp__alpha") = 1

\* C26: the save truncates the store before it writes it.  A tracker that loads
\* the store between the two steps of another writer gets the empty mapping and
\* goes on; what it writes back holds the record of its own tool and no other.
\* An analyzer run between the two steps goes on with no MCP tool at all.
C26_NonAtomicWrite ==
    [][/\ \A p \in Procs :
            /\ (procs[p].pc = "loaded" /\ procs'[p].pc = "truncated")
               => statsFile'.state = "unparseable"
            /\ (/\ procs[p].pc = "logged"
                /\ procs'[p].pc # "logged"
                /\ statsFile.state = "unparseable")
               => /\ procs'[p].pc = "loaded"
                  /\ Keys(procs'[p].stats) = {procs[p].tool_name}
                  /\ Get(procs'[p].stats, procs[p].tool_name).total_calls = 1
            /\ (/\ procs[p].pc = "truncated"
                /\ procs'[p].pc # "truncated"
                /\ Keys(procs[p].stats) = {procs[p].tool_name})
               => /\ statsFile'.state = "valid"
                  /\ Keys(statsFile'.data) = {procs[p].tool_name}
       /\ (runs' = runs + 1 /\ statsFile.state = "unparseable")
          => /\ combinedFile'.state = "valid"
             /\ combinedFile'.data.ecosystem_health.total_tools = 0]_vars

\* mcp__alpha was invoked twice and mcp__beta after it, every invocation has
\* ended, and the store holds mcp__beta alone: the invocation of mcp__beta loaded
\* the store while the second save of mcp__alpha had truncated it
C26_Witness ==
    /\ started = 2
    /\ \A p \in Procs : procs[p].pc = "done"
    /\ Len(trackerLog) = 3
    /\ Contains(trackerLog[1], "mcp__alpha")
    /\ Contains(trackerLog[2], "mcp__alpha")
    /\ Contains(trackerLog[3], "mcp__beta")
    /\ statsFile.state = "valid"
    /\ Keys(statsFile.data) = {"mcp__beta"}

\* the tools of a tier, and the tools the immediate actions name
ToolsOfTier(tier) == {tier[i].tool : i \in DOMAIN tier}

\* C23: the immediate actions are one "Investigate <tool> failures" action of
\* priority high for each tool of tier_5_critical, in the order of the tier,
\* and none for a tool of another tier: as many actions as critical tools.
C23_ImmediateActions ==
    combinedFile.state = "valid" =>
        LET tiers == combinedFile.data.reliability_tiers
            actions == combinedFile.data.recommendations.immediate_actions
        IN /\ Len(actions) = Len(tiers.tier_5_critical)
           /\ Len(actions) = Cardinality(ToolsOfTier(tiers.tier_5_critical))
           /\ \A i \in DOMAIN actions :
                 /\ actions[i].action
                        = "Investigate " \o tiers.tier_5_critical[i].tool \o " failures"
                 /\ actions[i].priority = "high"
           /\ \A name \in ToolsOfTier(tiers.tier_1_excellent)
                          \cup ToolsOfTier(tiers.tier_2_good)
                          \cup ToolsOfTier(tiers.tier_3_fair)
                          \cup ToolsOfTier(tiers.tier_4_poor) :
                 \A i \in DOMAIN actions :
                     actions[i].action # "Investigate " \o name \o " failures"

\* a run over a store with two critical tools and one poor tool
C23_Witness ==
    /\ combinedFile.state = "valid"
    /\ Len(combinedFile.data.reliability_tiers.tier_5_critical) = 2
    /\ Len(combinedFile.data.reliability_tiers.tier_4_poor) = 1
    /\ Len(combinedFile.data.recommendations.immediate_actions) = 2

\* the average time the store holds for a tool
StoredTime(name) ==
    LET loaded == load_stats(bashStatsFile, statsFile) IN
    IF HasKey(loaded.mcp_stats, name)
    THEN GetField(Get(loaded.mcp_stats, name), "average_response_time", Zero)
    ELSE GetField(Get(loaded.bash_stats, name), "average_execution_time", Zero)

\* C24 as stated: whatever the number of tools, a tool has an entry in
\* optimization_opportunities exactly when its average time is above 2000 ms.
C24_OptimizationSuggestions ==
    combinedFile.state = "valid" =>
        LET entries == combinedFile.data.recommendations.optimization_opportunities IN
        \A name \in StoredNames :
            RatGT(StoredTime(name), FromInt(2000))
                <=> \E i \in DOMAIN entries : entries[i].tool = name

(***************************************************************************)
(* C30: the loop guard of the session-end hook.                            *)
(***************************************************************************)
\* the hook ran in this step
HookRan == session'.invocations = session.invocations + 1

\* the value of stop_hook_active the hook was given (false when not given one)
GivenFlag == GetOr(session.input.fields, "stop_hook_active", JFalse)

\* the project configuration is one generate_reminders can work with: no
\* file, a file that does not parse, or a mapping whose custom_reminders is
\* empty, missing or something that can be listed
UsableConfig ==
    /\ session.config_file.state # "not_mapping"
    /\ session.config_file.state = "valid" =>
          LET custom == GetOr(session.config_file.data, "custom_reminders", JList(<<>>))
          IN Truthy(custom) => Iterable(custom)

\* C30 as stated: given stop_hook_active true the hook exits 0 without a
\* decision, and given valid JSON in which it is false the hook always answers
\* with a "block" decision.
C30_AlwaysBlocks ==
    [][HookRan /\ session.input.json = "object" =>
          IF GivenFlag = JTrue
          THEN session'.exit_code = 0 /\ session'.response.decision = "none"
          ELSE GivenFlag = JFalse => session'.response.decision = "block"]_vars

\* C30, corrected: given stop_hook_active true the hook exits 0 without a
\* decision; given a JSON object in which it is false, the hook answers with a
\* "block" decision that carries the reminders when the project configuration
\* is usable, and exits 0 without a decision when it is not; in both cases a
\* stop sequence sees at most one block and the session eventually ends.
C30_LoopGuard ==
    /\ [][HookRan /\ session.input.json = "object" =>
             IF GivenFlag = JTrue
             THEN session'.exit_code = 0 /\ session'.response.decision = "none"
             ELSE GivenFlag = JFalse =>
                    /\ session'.exit_code = 0
                    /\ session'.stderr = <<>>
                    /\ IF UsableConfig
                       THEN /\ session'.response.decision = "block"
                            /\ session'.response.reason # ""
                       ELSE session'.response = NoResponse]_vars
    /\ [](session.blocks <= 1)
    /\ <>(session.phase = "ended")

\* a session that was blocked once, wanted to stop again and was let go
C30_Witness ==
    /\ session.phase = "ended"
    /\ session.blocks = 1
    /\ session.invocations = 2
    /\ session.exit_code = 0
    /\ session.response = NoResponse


====
